---------------------------- MODULE Spec2Model ----------------------------
(***************************************************************************)
(* Semantic attributes of math symbols (SemanticAttr): the symbol          *)
(* classifier, its fence pairing tables and the static operations that     *)
(* read them, shared by interleaved tree builds.                           *)
(*                                                                         *)
(* Symbols are strings.  An ASCII symbol is written as itself; any other   *)
(* character is written by its code point, "u" followed by the hexadecimal *)
(* digits: "u2045" is the character the source writes '\u2045'.           *)
(***************************************************************************)
EXTENDS Integers, Sequences, FiniteSets, TLC

(***************************************************************************)
(* The symbol vocabularies: the field initialisers of class SemanticAttr, *)
(* in source order, each array as a sequence and each object literal as   *)
(* the sequence of its <<key, value>> properties in insertion order.       *)
(***************************************************************************)
generalPunctuations ==
  <<
    "!", "\"", "#", "%", "&", ";", "?", "@", "\\", "u00a1", "u00a7", "u00b6",
    "u00bf", "u2017", "u2020", "u2021", "u2022", "u2023", "u2024", "u2025",
    "u2027", "u2030", "u2031", "u2038", "u203b", "u203c", "u203d", "u203e",
    "u2041", "u2042", "u2043", "u2047", "u2048", "u2049", "u204b", "u204c",
    "u204d", "u204e", "u204f", "u2050", "u2051", "u2053", "u2055", "u2056",
    "u2058", "u2059", "u205a", "u205b", "u205c", "u205d", "u205e", "ufe10",
    "ufe14", "ufe15", "ufe16", "ufe30", "ufe45", "ufe46", "ufe49", "ufe4a",
    "ufe4b", "ufe4c", "ufe54", "ufe56", "ufe57", "ufe5f", "ufe60", "ufe61",
    "ufe68", "ufe6a", "ufe6b", "uff01", "uff02", "uff03", "uff05", "uff06",
    "uff07", "uff0a", "uff0f", "uff1b", "uff1f", "uff20", "uff3c"
  >>

colons ==
  <<
    "ufe13", ":", "uff1a", "ufe55"
  >>

ellipses ==
  <<
    "u2026", "u22ee", "u22ef", "u22f0", "u22f1", "ufe19"
  >>

fullStops ==
  <<
    ".", "ufe52", "uff0e"
  >>

dashes ==
  <<
    "u2012", "u2013", "u2014", "u2015", "u301c", "ufe31", "ufe32", "ufe58"
  >>

primes ==
  <<
    "'", "u2032", "u2033", "u2034", "u2035", "u2036", "u2037", "u2057",
    "u02b9", "u02ba"
  >>

degrees ==
  <<
    "u00b0"
  >>

openClosePairs ==
  <<
    <<"(", ")">>, <<"[", "]">>, <<"{", "}">>, <<"u2045", "u2046">>,
    <<"u2329", "u232a">>, <<"u2768", "u2769">>, <<"u276a", "u276b">>,
    <<"u276c", "u276d">>, <<"u276e", "u276f">>, <<"u2770", "u2771">>,
    <<"u2772", "u2773">>, <<"u2774", "u2775">>, <<"u27c5", "u27c6">>,
    <<"u27e6", "u27e7">>, <<"u27e8", "u27e9">>, <<"u27ea", "u27eb">>,
    <<"u27ec", "u27ed">>, <<"u27ee", "u27ef">>, <<"u2983", "u2984">>,
    <<"u2985", "u2986">>, <<"u2987", "u2988">>, <<"u2989", "u298a">>,
    <<"u298b", "u298c">>, <<"u298d", "u298e">>, <<"u298f", "u2990">>,
    <<"u2991", "u2992">>, <<"u2993", "u2994">>, <<"u2995", "u2996">>,
    <<"u2997", "u2998">>, <<"u29d8", "u29d9">>, <<"u29da", "u29db">>,
    <<"u29fc", "u29fd">>, <<"u2e22", "u2e23">>, <<"u2e24", "u2e25">>,
    <<"u2e26", "u2e27">>, <<"u2e28", "u2e29">>, <<"u3008", "u3009">>,
    <<"u300a", "u300b">>, <<"u300c", "u300d">>, <<"u300e", "u300f">>,
    <<"u3010", "u3011">>, <<"u3014", "u3015">>, <<"u3016", "u3017">>,
    <<"u3018", "u3019">>, <<"u301a", "u301b">>, <<"u301d", "u301e">>,
    <<"ufd3e", "ufd3f">>, <<"ufe17", "ufe18">>, <<"ufe59", "ufe5a">>,
    <<"ufe5b", "ufe5c">>, <<"ufe5d", "ufe5e">>, <<"uff08", "uff09">>,
    <<"uff3b", "uff3d">>, <<"uff5b", "uff5d">>, <<"uff5f", "uff60">>,
    <<"uff62", "uff63">>, <<"u2308", "u2309">>, <<"u230a", "u230b">>,
    <<"u230c", "u230d">>, <<"u230e", "u230f">>, <<"u231c", "u231d">>,
    <<"u231e", "u231f">>, <<"u239b", "u239e">>, <<"u239c", "u239f">>,
    <<"u239d", "u23a0">>, <<"u23a1", "u23a4">>, <<"u23a2", "u23a5">>,
    <<"u23a3", "u23a6">>, <<"u23a7", "u23ab">>, <<"u23a8", "u23ac">>,
    <<"u23a9", "u23ad">>, <<"u23b0", "u23b1">>, <<"u23b8", "u23b9">>
  >>

topBottomPairs ==
  <<
    <<"u23b4", "u23b5">>, <<"u23dc", "u23dd">>, <<"u23de", "u23df">>,
    <<"u23e0", "u23e1">>, <<"ufe35", "ufe36">>, <<"ufe37", "ufe38">>,
    <<"ufe39", "ufe3a">>, <<"ufe3b", "ufe3c">>, <<"ufe3d", "ufe3e">>,
    <<"ufe3f", "ufe40">>, <<"ufe41", "ufe42">>, <<"ufe43", "ufe44">>,
    <<"ufe47", "ufe48">>
  >>

neutralFences ==
  <<
    "|", "u00a6", "u2016", "u2223", "u23d0", "u23b8", "u23b9", "u2225",
    "u2758", "u2980", "u2af4", "uff5c", "uffe4"
  >>

capitalLatin ==
  <<
    "A", "B", "C", "D", "E", "F", "G", "H", "I", "J", "K", "L", "M", "N",
    "O", "P", "Q", "R", "S", "T", "U", "V", "W", "X", "Y", "Z"
  >>

smallLatin ==
  <<
    "a", "b", "c", "d", "e", "f", "g", "h", "i", "j", "k", "l", "m", "n",
    "o", "p", "q", "r", "s", "t", "u", "v", "w", "x", "y", "z", "u0131",
    "u0237"
  >>

capitalLatinFullWidth ==
  <<
    "uff21", "uff22", "uff23", "uff24", "uff25", "uff26", "uff27", "uff28",
    "uff29", "uff2a", "uff2b", "uff2c", "uff2d", "uff2e", "uff2f", "uff30",
    "uff31", "uff32", "uff33", "uff34", "uff35", "uff36", "uff37", "uff38",
    "uff39", "uff3a"
  >>

smallLatinFullWidth ==
  <<
    "uff41", "uff42", "uff43", "uff44", "uff45", "uff46", "uff47", "uff48",
    "uff49", "uff4a", "uff4b", "uff4c", "uff4d", "uff4e", "uff4f", "uff50",
    "uff51", "uff52", "uff53", "uff54", "uff55", "uff56", "uff57", "uff58",
    "uff59", "uff5a"
  >>

capitalLatinBold ==
  <<
    "u1d400", "u1d401", "u1d402", "u1d403", "u1d404", "u1d405", "u1d406",
    "u1d407", "u1d408", "u1d409", "u1d40a", "u1d40b", "u1d40c", "u1d40d",
    "u1d40e", "u1d40f", "u1d410", "u1d411", "u1d412", "u1d413", "u1d414",
    "u1d415", "u1d416", "u1d417", "u1d418", "u1d419"
  >>

smallLatinBold ==
  <<
    "u1d41a", "u1d41b", "u1d41c", "u1d41d", "u1d41e", "u1d41f", "u1d420",
    "u1d421", "u1d422", "u1d423", "u1d424", "u1d425", "u1d426", "u1d427",
    "u1d428", "u1d429", "u1d42a", "u1d42b", "u1d42c", "u1d42d", "u1d42e",
    "u1d42f", "u1d430", "u1d431", "u1d432", "u1d433"
  >>

capitalLatinItalic ==
  <<
    "u1d434", "u1d435", "u1d436", "u1d437", "u1d438", "u1d439", "u1d43a",
    "u1d43b", "u1d43c", "u1d43d", "u1d43e", "u1d43f", "u1d440", "u1d441",
    "u1d442", "u1d443", "u1d444", "u1d445", "u1d446", "u1d447", "u1d448",
    "u1d449", "u1d44a", "u1d44b", "u1d44c", "u1d44d"
  >>

smallLatinItalic ==
  <<
    "u1d44e", "u1d44f", "u1d450", "u1d451", "u1d452", "u1d453", "u1d454",
    "u210e", "u1d456", "u1d457", "u1d458", "u1d459", "u1d45a", "u1d45b",
    "u1d45c", "u1d45d", "u1d45e", "u1d45f", "u1d460", "u1d461", "u1d462",
    "u1d463", "u1d464", "u1d465", "u1d466", "u1d467", "u1d6a4", "u1d6a5"
  >>

capitalLatinBoldItalic ==
  <<
    "u1d468", "u1d469", "u1d46a", "u1d46b", "u1d46c", "u1d46d", "u1d46e",
    "u1d46f", "u1d470", "u1d471", "u1d472", "u1d473", "u1d474", "u1d475",
    "u1d476", "u1d477", "u1d478", "u1d479", "u1d47a", "u1d47b", "u1d47c",
    "u1d47d", "u1d47e", "u1d47f", "u1d480", "u1d481"
  >>

smallLatinBoldItalic ==
  <<
    "u1d482", "u1d483", "u1d484", "u1d485", "u1d486", "u1d487", "u1d488",
    "u1d489", "u1d48a", "u1d48b", "u1d48c", "u1d48d", "u1d48e", "u1d48f",
    "u1d490", "u1d491", "u1d492", "u1d493", "u1d494", "u1d495", "u1d496",
    "u1d497", "u1d498", "u1d499", "u1d49a", "u1d49b"
  >>

capitalLatinScript ==
  <<
    "u1d49c", "u212c", "u1d49e", "u1d49f", "u2130", "u2131", "u1d4a2",
    "u210b", "u2110", "u1d4a5", "u1d4a6", "u2112", "u2133", "u1d4a9",
    "u1d4aa", "u1d4ab", "u1d4ac", "u211b", "u1d4ae", "u1d4af", "u1d4b0",
    "u1d4b1", "u1d4b2", "u1d4b3", "u1d4b4", "u1d4b5", "u2118"
  >>

smallLatinScript ==
  <<
    "u1d4b6", "u1d4b7", "u1d4b8", "u1d4b9", "u212f", "u1d4bb", "u210a",
    "u1d4bd", "u1d4be", "u1d4bf", "u1d4c0", "u1d4c1", "u1d4c2", "u1d4c3",
    "u2134", "u1d4c5", "u1d4c6", "u1d4c7", "u1d4c8", "u1d4c9", "u1d4ca",
    "u1d4cb", "u1d4cc", "u1d4cd", "u1d4ce", "u1d4cf", "u2113"
  >>

capitalLatinBoldScript ==
  <<
    "u1d4d0", "u1d4d1", "u1d4d2", "u1d4d3", "u1d4d4", "u1d4d5", "u1d4d6",
    "u1d4d7", "u1d4d8", "u1d4d9", "u1d4da", "u1d4db", "u1d4dc", "u1d4dd",
    "u1d4de", "u1d4df", "u1d4e0", "u1d4e1", "u1d4e2", "u1d4e3", "u1d4e4",
    "u1d4e5", "u1d4e6", "u1d4e7", "u1d4e8", "u1d4e9"
  >>

smallLatinBoldScript ==
  <<
    "u1d4ea", "u1d4eb", "u1d4ec", "u1d4ed", "u1d4ee", "u1d4ef", "u1d4f0",
    "u1d4f1", "u1d4f2", "u1d4f3", "u1d4f4", "u1d4f5", "u1d4f6", "u1d4f7",
    "u1d4f8", "u1d4f9", "u1d4fa", "u1d4fb", "u1d4fc", "u1d4fd", "u1d4fe",
    "u1d4ff", "u1d500", "u1d501", "u1d502", "u1d503"
  >>

capitalLatinFraktur ==
  <<
    "u1d504", "u1d505", "u212d", "u1d507", "u1d508", "u1d509", "u1d50a",
    "u210c", "u2111", "u1d50d", "u1d50e", "u1d50f", "u1d510", "u1d511",
    "u1d512", "u1d513", "u1d514", "u211c", "u1d516", "u1d517", "u1d518",
    "u1d519", "u1d51a", "u1d51b", "u1d51c", "u2128"
  >>

smallLatinFraktur ==
  <<
    "u1d51e", "u1d51f", "u1d520", "u1d521", "u1d522", "u1d523", "u1d524",
    "u1d525", "u1d526", "u1d527", "u1d528", "u1d529", "u1d52a", "u1d52b",
    "u1d52c", "u1d52d", "u1d52e", "u1d52f", "u1d530", "u1d531", "u1d532",
    "u1d533", "u1d534", "u1d535", "u1d536", "u1d537"
  >>

capitalLatinDoubleStruck ==
  <<
    "u1d538", "u1d539", "u2102", "u1d53b", "u1d53c", "u1d53d", "u1d53e",
    "u210d", "u1d540", "u1d541", "u1d542", "u1d543", "u1d544", "u2115",
    "u1d546", "u2119", "u211a", "u211d", "u1d54a", "u1d54b", "u1d54c",
    "u1d54d", "u1d54e", "u1d54f", "u1d550", "u2124"
  >>

smallLatinDoubleStruck ==
  <<
    "u1d552", "u1d553", "u1d554", "u1d555", "u1d556", "u1d557", "u1d558",
    "u1d559", "u1d55a", "u1d55b", "u1d55c", "u1d55d", "u1d55e", "u1d55f",
    "u1d560", "u1d561", "u1d562", "u1d563", "u1d564", "u1d565", "u1d566",
    "u1d567", "u1d568", "u1d569", "u1d56a", "u1d56b"
  >>

capitalLatinBoldFraktur ==
  <<
    "u1d56c", "u1d56d", "u1d56e", "u1d56f", "u1d570", "u1d571", "u1d572",
    "u1d573", "u1d574", "u1d575", "u1d576", "u1d577", "u1d578", "u1d579",
    "u1d57a", "u1d57b", "u1d57c", "u1d57d", "u1d57e", "u1d57f", "u1d580",
    "u1d581", "u1d582", "u1d583", "u1d584", "u1d585"
  >>

smallLatinBoldFraktur ==
  <<
    "u1d586", "u1d587", "u1d588", "u1d589", "u1d58a", "u1d58b", "u1d58c",
    "u1d58d", "u1d58e", "u1d58f", "u1d590", "u1d591", "u1d592", "u1d593",
    "u1d594", "u1d595", "u1d596", "u1d597", "u1d598", "u1d599", "u1d59a",
    "u1d59b", "u1d59c", "u1d59d", "u1d59e", "u1d59f"
  >>

capitalLatinSansSerif ==
  <<
    "u1d5a0", "u1d5a1", "u1d5a2", "u1d5a3", "u1d5a4", "u1d5a5", "u1d5a6",
    "u1d5a7", "u1d5a8", "u1d5a9", "u1d5aa", "u1d5ab", "u1d5ac", "u1d5ad",
    "u1d5ae", "u1d5af", "u1d5b0", "u1d5b1", "u1d5b2", "u1d5b3", "u1d5b4",
    "u1d5b5", "u1d5b6", "u1d5b7", "u1d5b8", "u1d5b9"
  >>

smallLatinSansSerif ==
  <<
    "u1d5ba", "u1d5bb", "u1d5bc", "u1d5bd", "u1d5be", "u1d5bf", "u1d5c0",
    "u1d5c1", "u1d5c2", "u1d5c3", "u1d5c4", "u1d5c5", "u1d5c6", "u1d5c7",
    "u1d5c8", "u1d5c9", "u1d5ca", "u1d5cb", "u1d5cc", "u1d5cd", "u1d5ce",
    "u1d5cf", "u1d5d0", "u1d5d1", "u1d5d2", "u1d5d3"
  >>

capitalLatinSansSerifBold ==
  <<
    "u1d5d4", "u1d5d5", "u1d5d6", "u1d5d7", "u1d5d8", "u1d5d9", "u1d5da",
    "u1d5db", "u1d5dc", "u1d5dd", "u1d5de", "u1d5df", "u1d5e0", "u1d5e1",
    "u1d5e2", "u1d5e3", "u1d5e4", "u1d5e5", "u1d5e6", "u1d5e7", "u1d5e8",
    "u1d5e9", "u1d5ea", "u1d5eb", "u1d5ec", "u1d5ed"
  >>

smallLatinSansSerifBold ==
  <<
    "u1d5ee", "u1d5ef", "u1d5f0", "u1d5f1", "u1d5f2", "u1d5f3", "u1d5f4",
    "u1d5f5", "u1d5f6", "u1d5f7", "u1d5f8", "u1d5f9", "u1d5fa", "u1d5fb",
    "u1d5fc", "u1d5fd", "u1d5fe", "u1d5ff", "u1d600", "u1d601", "u1d602",
    "u1d603", "u1d604", "u1d605", "u1d606", "u1d607"
  >>

capitalLatinSansSerifItalic ==
  <<
    "u1d608", "u1d609", "u1d60a", "u1d60b", "u1d60c", "u1d60d", "u1d60e",
    "u1d60f", "u1d610", "u1d611", "u1d612", "u1d613", "u1d614", "u1d615",
    "u1d616", "u1d617", "u1d618", "u1d619", "u1d61a", "u1d61b", "u1d61c",
    "u1d61d", "u1d61e", "u1d61f", "u1d620", "u1d621"
  >>

smallLatinSansSerifItalic ==
  <<
    "u1d622", "u1d623", "u1d624", "u1d625", "u1d626", "u1d627", "u1d628",
    "u1d629", "u1d62a", "u1d62b", "u1d62c", "u1d62d", "u1d62e", "u1d62f",
    "u1d630", "u1d631", "u1d632", "u1d633", "u1d634", "u1d635", "u1d636",
    "u1d637", "u1d638", "u1d639", "u1d63a", "u1d63b"
  >>

capitalLatinSansSerifBoldItalic ==
  <<
    "u1d63c", "u1d63d", "u1d63e", "u1d63f", "u1d640", "u1d641", "u1d642",
    "u1d643", "u1d644", "u1d645", "u1d646", "u1d647", "u1d648", "u1d649",
    "u1d64a", "u1d64b", "u1d64c", "u1d64d", "u1d64e", "u1d64f", "u1d650",
    "u1d651", "u1d652", "u1d653", "u1d654", "u1d655"
  >>

smallLatinSansSerifBoldItalic ==
  <<
    "u1d656", "u1d657", "u1d658", "u1d659", "u1d65a", "u1d65b", "u1d65c",
    "u1d65d", "u1d65e", "u1d65f", "u1d660", "u1d661", "u1d662", "u1d663",
    "u1d664", "u1d665", "u1d666", "u1d667", "u1d668", "u1d669", "u1d66a",
    "u1d66b", "u1d66c", "u1d66d", "u1d66e", "u1d66f"
  >>

capitalLatinMonospace ==
  <<
    "u1d670", "u1d671", "u1d672", "u1d673", "u1d674", "u1d675", "u1d676",
    "u1d677", "u1d678", "u1d679", "u1d67a", "u1d67b", "u1d67c", "u1d67d",
    "u1d67e", "u1d67f", "u1d680", "u1d681", "u1d682", "u1d683", "u1d684",
    "u1d685", "u1d686", "u1d687", "u1d688", "u1d689"
  >>

smallLatinMonospace ==
  <<
    "u1d68a", "u1d68b", "u1d68c", "u1d68d", "u1d68e", "u1d68f", "u1d690",
    "u1d691", "u1d692", "u1d693", "u1d694", "u1d695", "u1d696", "u1d697",
    "u1d698", "u1d699", "u1d69a", "u1d69b", "u1d69c", "u1d69d", "u1d69e",
    "u1d69f", "u1d6a0", "u1d6a1", "u1d6a2", "u1d6a3"
  >>

latinDoubleStruckItalic ==
  <<
    "u2145", "u2146", "u2147", "u2148", "u2149"
  >>

capitalGreek ==
  <<
    "u0391", "u0392", "u0393", "u0394", "u0395", "u0396", "u0397", "u0398",
    "u0399", "u039a", "u039b", "u039c", "u039d", "u039e", "u039f", "u03a0",
    "u03a1", "u03a3", "u03a4", "u03a5", "u03a6", "u03a7", "u03a8", "u03a9"
  >>

smallGreek ==
  <<
    "u03b1", "u03b2", "u03b3", "u03b4", "u03b5", "u03b6", "u03b7", "u03b8",
    "u03b9", "u03ba", "u03bb", "u03bc", "u03bd", "u03be", "u03bf", "u03c0",
    "u03c1", "u03c2", "u03c3", "u03c4", "u03c5", "u03c6", "u03c7", "u03c8",
    "u03c9"
  >>

capitalGreekBold ==
  <<
    "u1d6a8", "u1d6a9", "u1d6aa", "u1d6ab", "u1d6ac", "u1d6ad", "u1d6ae",
    "u1d6af", "u1d6b0", "u1d6b1", "u1d6b2", "u1d6b3", "u1d6b4", "u1d6b5",
    "u1d6b6", "u1d6b7", "u1d6b8", "u1d6ba", "u1d6bb", "u1d6bc", "u1d6bd",
    "u1d6be", "u1d6bf", "u1d6c0"
  >>

smallGreekBold ==
  <<
    "u1d6c2", "u1d6c3", "u1d6c4", "u1d6c5", "u1d6c6", "u1d6c7", "u1d6c8",
    "u1d6c9", "u1d6ca", "u1d6cb", "u1d6cc", "u1d6cd", "u1d6ce", "u1d6cf",
    "u1d6d0", "u1d6d1", "u1d6d2", "u1d6d3", "u1d6d4", "u1d6d5", "u1d6d6",
    "u1d6d7", "u1d6d8", "u1d6d9", "u1d6da"
  >>

capitalGreekItalic ==
  <<
    "u1d6e2", "u1d6e3", "u1d6e4", "u1d6e5", "u1d6e6", "u1d6e7", "u1d6e8",
    "u1d6e9", "u1d6ea", "u1d6eb", "u1d6ec", "u1d6ed", "u1d6ee", "u1d6ef",
    "u1d6f0", "u1d6f1", "u1d6f2", "u1d6f4", "u1d6f5", "u1d6f6", "u1d6f7",
    "u1d6f8", "u1d6f9", "u1d6fa"
  >>

smallGreekItalic ==
  <<
    "u1d6fc", "u1d6fd", "u1d6fe", "u1d6ff", "u1d700", "u1d701", "u1d702",
    "u1d703", "u1d704", "u1d705", "u1d706", "u1d707", "u1d708", "u1d709",
    "u1d70a", "u1d70b", "u1d70c", "u1d70d", "u1d70e", "u1d70f", "u1d710",
    "u1d711", "u1d712", "u1d713", "u1d714"
  >>

capitalGreekBoldItalic ==
  <<
    "u1d71c", "u1d71d", "u1d71e", "u1d71f", "u1d720", "u1d721", "u1d722",
    "u1d723", "u1d724", "u1d725", "u1d726", "u1d727", "u1d728", "u1d729",
    "u1d72a", "u1d72b", "u1d72c", "u1d72e", "u1d72f", "u1d730", "u1d731",
    "u1d732", "u1d733", "u1d734"
  >>

smallGreekBoldItalic ==
  <<
    "u1d736", "u1d737", "u1d738", "u1d739", "u1d73a", "u1d73b", "u1d73c",
    "u1d73d", "u1d73e", "u1d73f", "u1d740", "u1d741", "u1d742", "u1d743",
    "u1d744", "u1d745", "u1d746", "u1d747", "u1d748", "u1d749", "u1d74a",
    "u1d74b", "u1d74c", "u1d74d", "u1d74e"
  >>

capitalGreekSansSerifBold ==
  <<
    "u1d756", "u1d757", "u1d758", "u1d759", "u1d75a", "u1d75b", "u1d75c",
    "u1d75d", "u1d75e", "u1d75f", "u1d760", "u1d761", "u1d762", "u1d763",
    "u1d764", "u1d765", "u1d766", "u1d768", "u1d769", "u1d76a", "u1d76b",
    "u1d76c", "u1d76d", "u1d76e"
  >>

smallGreekSansSerifBold ==
  <<
    "u1d770", "u1d771", "u1d772", "u1d773", "u1d774", "u1d775", "u1d776",
    "u1d777", "u1d778", "u1d779", "u1d77a", "u1d77b", "u1d77c", "u1d77d",
    "u1d77e", "u1d77f", "u1d780", "u1d781", "u1d782", "u1d783", "u1d784",
    "u1d785", "u1d786", "u1d787", "u1d788"
  >>

capitalGreekSansSerifBoldItalic ==
  <<
    "u1d790", "u1d791", "u1d792", "u1d793", "u1d794", "u1d795", "u1d796",
    "u1d797", "u1d798", "u1d799", "u1d79a", "u1d79b", "u1d79c", "u1d79d",
    "u1d79e", "u1d79f", "u1d7a0", "u1d7a2", "u1d7a3", "u1d7a4", "u1d7a5",
    "u1d7a6", "u1d7a7", "u1d7a8"
  >>

smallGreekSansSerifBoldItalic ==
  <<
    "u1d7aa", "u1d7ab", "u1d7ac", "u1d7ad", "u1d7ae", "u1d7af", "u1d7b0",
    "u1d7b1", "u1d7b2", "u1d7b3", "u1d7b4", "u1d7b5", "u1d7b6", "u1d7b7",
    "u1d7b8", "u1d7b9", "u1d7ba", "u1d7bb", "u1d7bc", "u1d7bd", "u1d7be",
    "u1d7bf", "u1d7c0", "u1d7c1", "u1d7c2"
  >>

greekDoubleStruck ==
  <<
    "u213c", "u213d", "u213e", "u213f"
  >>

greekSpecial ==
  <<
    "u03d0", "u03d1", "u03d5", "u03d6", "u03d7", "u03f0", "u03f1", "u03f5",
    "u03f6", "u03f4"
  >>

greekSpecialBold ==
  <<
    "u1d6dc", "u1d6dd", "u1d6de", "u1d6df", "u1d6e0", "u1d6e1"
  >>

greekSpecialItalic ==
  <<
    "u1d716", "u1d717", "u1d718", "u1d719", "u1d71a", "u1d71b"
  >>

greekSpecialSansSerifBold ==
  <<
    "u1d78a", "u1d78b", "u1d78c", "u1d78d", "u1d78e", "u1d78f"
  >>

hebrewLetters ==
  <<
    "u2135", "u2136", "u2137", "u2138"
  >>

additions ==
  <<
    "+", "u00b1", "u2213", "u2214", "u2227", "u2228", "u2229", "u222a",
    "u228c", "u228d", "u228e", "u2293", "u2294", "u229d", "u229e", "u22a4",
    "u22a5", "u22ba", "u22bb", "u22bc", "u22c4", "u22ce", "u22cf", "u22d2",
    "u22d3", "u2a5e", "u2295", "u22d4"
  >>

multiplications ==
  <<
    "u2020", "u2021", "u2210", "u2217", "u2218", "u2219", "u2240", "u229a",
    "u229b", "u22a0", "u22a1", "u22c5", "u22c6", "u22c7", "u22c8", "u22c9",
    "u22ca", "u22cb", "u22cc", "u25cb", "u00b7", "*", "u2297", "u2299"
  >>

subtractions ==
  <<
    "-", "u2052", "u207b", "u208b", "u2212", "u2216", "u2238", "u2242",
    "u2296", "u229f", "u2796", "u2a29", "u2a2a", "u2a2b", "u2a2c", "u2a3a",
    "u2a41", "ufe63", "uff0d", "u2010", "u2011"
  >>

divisions ==
  <<
    "/", "u00f7", "u2044", "u2215", "u2298", "u27cc", "u29bc", "u2a38"
  >>

equalities ==
  <<
    "=", "~", "u207c", "u208c", "u223c", "u223d", "u2243", "u2245", "u2248",
    "u224a", "u224b", "u224c", "u224d", "u224e", "u2251", "u2252", "u2253",
    "u2254", "u2255", "u2256", "u2257", "u2258", "u2259", "u225a", "u225b",
    "u225c", "u225d", "u225e", "u225f", "u2261", "u2263", "u29e4", "u2a66",
    "u2a6e", "u2a6f", "u2a70", "u2a71", "u2a72", "u2a73", "u2a74", "u2a75",
    "u2a76", "u2a77", "u2a78", "u22d5", "u2a6d", "u2a6a", "u2a6b", "u2a6c",
    "ufe66", "uff1d", "u2a6c", "u229c", "u2237"
  >>

inequalities ==
  <<
    "<", ">", "u2241", "u2242", "u2244", "u2246", "u2247", "u2249", "u224f",
    "u2250", "u2260", "u2262", "u2264", "u2265", "u2266", "u2267", "u2268",
    "u2269", "u226a", "u226b", "u226c", "u226d", "u226e", "u226f", "u2270",
    "u2271", "u2272", "u2273", "u2274", "u2275", "u2276", "u2277", "u2278",
    "u2279", "u227a", "u227b", "u227c", "u227d", "u227e", "u227f", "u2280",
    "u2281", "u22d6", "u22d7", "u22d8", "u22d9", "u22da", "u22db", "u22dc",
    "u22dd", "u22de", "u22df", "u22e0", "u22e1", "u22e6", "u22e7", "u22e8",
    "u22e9", "u2a79", "u2a7a", "u2a7b", "u2a7c", "u2a7d", "u2a7e", "u2a7f",
    "u2a80", "u2a81", "u2a82", "u2a83", "u2a84", "u2a85", "u2a86", "u2a87",
    "u2a88", "u2a89", "u2a8a", "u2a8b", "u2a8c", "u2a8d", "u2a8e", "u2a8f",
    "u2a90", "u2a91", "u2a92", "u2a93", "u2a94", "u2a95", "u2a96", "u2a97",
    "u2a98", "u2a99", "u2a9a", "u2a9b", "u2a9c", "u2a9d", "u2a9e", "u2a9f",
    "u2aa0", "u2aa1", "u2aa2", "u2aa3", "u2aa4", "u2aa5", "u2aa6", "u2aa7",
    "u2aa8", "u2aa9", "u2aaa", "u2aab", "u2aac", "u2aad", "u2aae", "u2aaf",
    "u2ab0", "u2ab1", "u2ab2", "u2ab3", "u2ab4", "u2ab5", "u2ab6", "u2ab7",
    "u2ab8", "u2ab9", "u2aba", "u2abb", "u2abc", "u2af7", "u2af8", "u2af9",
    "u2afa", "u29c0", "u29c1", "ufe64", "ufe65", "uff1c", "uff1e"
  >>

setRelations ==
  <<
    "u22e2", "u22e3", "u22e4", "u22e5", "u2282", "u2283", "u2284", "u2285",
    "u2286", "u2287", "u2288", "u2289", "u228a", "u228b", "u228f", "u2290",
    "u2291", "u2292", "u2abd", "u2abe", "u2abf", "u2ac0", "u2ac1", "u2ac2",
    "u2ac3", "u2ac4", "u2ac5", "u2ac6", "u2ac7", "u2ac8", "u2ac9", "u2aca",
    "u2acb", "u2acc", "u2acd", "u2ace", "u2acf", "u2ad0", "u2ad1", "u2ad2",
    "u2ad3", "u2ad4", "u2ad5", "u2ad6", "u2ad7", "u2ad8", "u22d0", "u22d1",
    "u22ea", "u22eb", "u22ec", "u22ed", "u22b2", "u22b3", "u22b4", "u22b5"
  >>

elementRelations ==
  <<
    "u2208", "u2209", "u220a", "u220b", "u220c", "u220d", "u22f2", "u22f3",
    "u22f4", "u22f5", "u22f6", "u22f7", "u22f8", "u22f9", "u22fa", "u22fb",
    "u22fc", "u22fd", "u22fe", "u22ff"
  >>

relations ==
  <<
    "u22a2", "u22a3", "u22a6", "u22a7", "u22a8", "u22a9", "u22aa", "u22ab",
    "u22ac", "u22ad", "u22ae", "u22af", "u2ade", "u2adf", "u2ae0", "u2ae1",
    "u2ae2", "u2ae3", "u2ae4", "u2ae5", "u2ae6", "u2ae7", "u2ae8", "u2ae9",
    "u2aea", "u2aeb", "u2aec", "u2aed"
  >>

arrows ==
  <<
    "u2190", "u2191", "u2192", "u2193", "u2194", "u2195", "u2196", "u2197",
    "u2198", "u2199", "u219a", "u219b", "u219c", "u219d", "u219e", "u219f",
    "u21a0", "u21a1", "u21a2", "u21a3", "u21a4", "u21a5", "u21a6", "u21a7",
    "u21a8", "u21a9", "u21aa", "u21ab", "u21ac", "u21ad", "u21ae", "u21af",
    "u21b0", "u21b1", "u21b2", "u21b3", "u21b4", "u21b5", "u21b6", "u21b7",
    "u21b8", "u21b9", "u21ba", "u21bb", "u21c4", "u21c5", "u21c6", "u21c7",
    "u21c8", "u21c9", "u21ca", "u21cd", "u21ce", "u21cf", "u21d0", "u21d1",
    "u21d2", "u21d3", "u21d4", "u21d5", "u21d6", "u21d7", "u21d8", "u21d9",
    "u21da", "u21db", "u21dc", "u21dd", "u21de", "u21df", "u21e0", "u21e1",
    "u21e2", "u21e3", "u21e4", "u21e5", "u21e6", "u21e7", "u21e8", "u21e9",
    "u21ea", "u21eb", "u21ec", "u21ed", "u21ee", "u21ef", "u21f0", "u21f1",
    "u21f2", "u21f3", "u21f4", "u21f5", "u21f6", "u21f7", "u21f8", "u21f9",
    "u21fa", "u21fb", "u21fc", "u21fd", "u21fe", "u21ff", "u2301", "u2303",
    "u2304", "u2324", "u238b", "u2794", "u2798", "u2799", "u279a", "u279b",
    "u279c", "u279d", "u279e", "u279f", "u27a0", "u27a1", "u27a2", "u27a3",
    "u27a4", "u27a5", "u27a6", "u27a7", "u27a8", "u27a9", "u27aa", "u27ab",
    "u27ac", "u27ad", "u27ae", "u27af", "u27b1", "u27b2", "u27b3", "u27b4",
    "u27b5", "u27b6", "u27b7", "u27b8", "u27b9", "u27ba", "u27bb", "u27bc",
    "u27bd", "u27be", "u27f0", "u27f1", "u27f2", "u27f3", "u27f4", "u27f5",
    "u27f6", "u27f7", "u27f8", "u27f9", "u27fa", "u27fb", "u27fc", "u27fd",
    "u27fe", "u27ff", "u2900", "u2901", "u2902", "u2903", "u2904", "u2905",
    "u2906", "u2907", "u2908", "u2909", "u290a", "u290b", "u290c", "u290d",
    "u290e", "u290f", "u2910", "u2911", "u2912", "u2913", "u2914", "u2915",
    "u2916", "u2917", "u2918", "u2919", "u291a", "u291b", "u291c", "u291d",
    "u291e", "u291f", "u2920", "u2921", "u2922", "u2923", "u2924", "u2925",
    "u2926", "u2927", "u2928", "u2929", "u292a", "u292d", "u292e", "u292f",
    "u2930", "u2931", "u2932", "u2933", "u2934", "u2935", "u2936", "u2937",
    "u2938", "u2939", "u293a", "u293b", "u293c", "u293d", "u293e", "u293f",
    "u2940", "u2941", "u2942", "u2943", "u2944", "u2945", "u2946", "u2947",
    "u2948", "u2949", "u2970", "u2971", "u2972", "u2973", "u2974", "u2975",
    "u2976", "u2977", "u2978", "u2979", "u297a", "u297b", "u29b3", "u29b4",
    "u29bd", "u29ea", "u29ec", "u29ed", "u2a17", "u2b00", "u2b01", "u2b02",
    "u2b03", "u2b04", "u2b05", "u2b06", "u2b07", "u2b08", "u2b09", "u2b0a",
    "u2b0b", "u2b0c", "u2b0d", "u2b0e", "u2b0f", "u2b10", "u2b11", "u2b30",
    "u2b31", "u2b32", "u2b33", "u2b34", "u2b35", "u2b36", "u2b37", "u2b38",
    "u2b39", "u2b3a", "u2b3b", "u2b3c", "u2b3d", "u2b3e", "u2b3f", "u2b40",
    "u2b41", "u2b42", "u2b43", "u2b44", "u2b45", "u2b46", "u2b47", "u2b48",
    "u2b49", "u2b4a", "u2b4b", "u2b4c", "uffe9", "uffea", "uffeb", "uffec",
    "u21bc", "u21bd", "u21be", "u21bf", "u21c0", "u21c1", "u21c2", "u21c3",
    "u21cb", "u21cc", "u294a", "u294b", "u294c", "u294d", "u294e", "u294f",
    "u2950", "u2951", "u2952", "u2953", "u2954", "u2955", "u2956", "u2957",
    "u2958", "u2959", "u295a", "u295b", "u295c", "u295d", "u295e", "u295f",
    "u2960", "u2961", "u2962", "u2963", "u2964", "u2965", "u2966", "u2967",
    "u2968", "u2969", "u296a", "u296b", "u296c", "u296d", "u296e", "u296f",
    "u297c", "u297d", "u297e", "u297f"
  >>

sumOps ==
  <<
    "u2140", "u220f", "u2210", "u2211", "u22c0", "u22c1", "u22c2", "u22c3",
    "u2a00", "u2a01", "u2a02", "u2a03", "u2a04", "u2a05", "u2a06", "u2a07",
    "u2a08", "u2a09", "u2a0a", "u2a0b", "u2afc", "u2aff"
  >>

intOps ==
  <<
    "u222b", "u222c", "u222d", "u222e", "u222f", "u2230", "u2231", "u2232",
    "u2233", "u2a0c", "u2a0d", "u2a0e", "u2a0f", "u2a10", "u2a11", "u2a12",
    "u2a13", "u2a14", "u2a15", "u2a16", "u2a17", "u2a18", "u2a19", "u2a1a",
    "u2a1b", "u2a1c"
  >>

geometryOps ==
  <<
    "u221f", "u2220", "u2221", "u2222", "u22be", "u22bf", "u25b3", "u25b7",
    "u25bd", "u25c1"
  >>

prefixOps ==
  <<
    "u2200", "u2203", "u2206", "u2207", "u2202", "u2201", "u2204"
  >>

prefixOpsBold ==
  <<
    "u1d6c1", "u1d6db", "u1d7ca", "u1d7cb"
  >>

prefixOpsItalic ==
  <<
    "u1d6fb", "u1d715"
  >>

prefixOpsSansSerifBold ==
  <<
    "u1d76f", "u1d789"
  >>

operatorBits ==
  <<
    "u2320", "u2321", "u23b6", "u23aa", "u23ae", "u23af", "u23b2", "u23b3",
    "u23b7"
  >>

digitsNormal ==
  <<
    "0", "1", "2", "3", "4", "5", "6", "7", "8", "9"
  >>

digitsFullWidth ==
  <<
    "uff10", "uff11", "uff12", "uff13", "uff14", "uff15", "uff16", "uff17",
    "uff18", "uff19"
  >>

digitsBold ==
  <<
    "u1d7ce", "u1d7cf", "u1d7d0", "u1d7d1", "u1d7d2", "u1d7d3", "u1d7d4",
    "u1d7d5", "u1d7d6", "u1d7d7"
  >>

digitsDoubleStruck ==
  <<
    "u1d7d8", "u1d7d9", "u1d7da", "u1d7db", "u1d7dc", "u1d7dd", "u1d7de",
    "u1d7df", "u1d7e0", "u1d7e1"
  >>

digitsSansSerif ==
  <<
    "u1d7e2", "u1d7e3", "u1d7e4", "u1d7e5", "u1d7e6", "u1d7e7", "u1d7e8",
    "u1d7e9", "u1d7ea", "u1d7eb"
  >>

digitsSansSerifBold ==
  <<
    "u1d7ec", "u1d7ed", "u1d7ee", "u1d7ef", "u1d7f0", "u1d7f1", "u1d7f2",
    "u1d7f3", "u1d7f4", "u1d7f5"
  >>

digitsMonospace ==
  <<
    "u1d7f6", "u1d7f7", "u1d7f8", "u1d7f9", "u1d7fa", "u1d7fb", "u1d7fc",
    "u1d7fd", "u1d7fe", "u1d7ff"
  >>

digitsSuperscript ==
  <<
    "u00b2", "u00b3", "u00b9", "u2070", "u2074", "u2075", "u2076", "u2077",
    "u2078", "u2079"
  >>

digitsSubscript ==
  <<
    "u2080", "u2081", "u2082", "u2083", "u2084", "u2085", "u2086", "u2087",
    "u2088", "u2089"
  >>

fractions ==
  <<
    "u00bc", "u00bd", "u00be", "u2150", "u2151", "u2152", "u2153", "u2154",
    "u2155", "u2156", "u2157", "u2158", "u2159", "u215a", "u215b", "u215c",
    "u215d", "u215e", "u215f", "u2189"
  >>

enclosedNumbers ==
  <<
    "u2460", "u2461", "u2462", "u2463", "u2464", "u2465", "u2466", "u2467",
    "u2468", "u2469", "u246a", "u246b", "u246c", "u246d", "u246e", "u246f",
    "u2470", "u2471", "u2472", "u2473", "u24ea", "u24eb", "u24ec", "u24ed",
    "u24ee", "u24ef", "u24f0", "u24f1", "u24f2", "u24f3", "u24f4", "u24f5",
    "u24f6", "u24f7", "u24f8", "u24f9", "u24fa", "u24fb", "u24fc", "u24fd",
    "u24fe", "u24ff", "u2776", "u2777", "u2778", "u2779", "u277a", "u277b",
    "u277c", "u277d", "u277e", "u277f", "u2780", "u2781", "u2782", "u2783",
    "u2784", "u2785", "u2786", "u2787", "u2788", "u2789", "u278a", "u278b",
    "u278c", "u278d", "u278e", "u278f", "u2790", "u2791", "u2792", "u2793",
    "u3248", "u3249", "u324a", "u324b", "u324c", "u324d", "u324e", "u324f",
    "u3251", "u3252", "u3253", "u3254", "u3255", "u3256", "u3257", "u3258",
    "u3259", "u325a", "u325b", "u325c", "u325d", "u325e", "u325f", "u32b1",
    "u32b2", "u32b3", "u32b4", "u32b5", "u32b6", "u32b7", "u32b8", "u32b9",
    "u32ba", "u32bb", "u32bc", "u32bd", "u32be", "u32bf"
  >>

fencedNumbers ==
  <<
    "u2474", "u2475", "u2476", "u2477", "u2478", "u2479", "u247a", "u247b",
    "u247c", "u247d", "u247e", "u247f", "u2480", "u2481", "u2482", "u2483",
    "u2484", "u2485", "u2486", "u2487"
  >>

punctuatedNumbers ==
  <<
    "u2488", "u2489", "u248a", "u248b", "u248c", "u248d", "u248e", "u248f",
    "u2490", "u2491", "u2492", "u2493", "u2494", "u2495", "u2496", "u2497",
    "u2498", "u2499", "u249a", "u249b", "u1f100", "u1f101", "u1f102",
    "u1f103", "u1f104", "u1f105", "u1f106", "u1f107", "u1f108", "u1f109",
    "u1f10a"
  >>

trigonometricFunctions ==
  <<
    "cos", "cot", "csc", "sec", "sin", "tan", "arccos", "arccot", "arccsc",
    "arcsec", "arcsin", "arctan", "arc cos", "arc cot", "arc csc", "arc sec",
    "arc sin", "arc tan"
  >>

hyperbolicFunctions ==
  <<
    "cosh", "coth", "csch", "sech", "sinh", "tanh", "arcosh", "arcoth",
    "arcsch", "arsech", "arsinh", "artanh", "arccosh", "arccoth", "arccsch",
    "arcsech", "arcsinh", "arctanh"
  >>

algebraicFunctions ==
  <<
    "deg", "det", "dim", "hom", "ker", "Tr", "tr"
  >>

elementaryFunctions ==
  <<
    "log", "ln", "lg", "exp", "expt", "gcd", "gcd", "arg", "im", "re", "Pr"
  >>

limitFunctions ==
  <<
    "inf", "lim", "liminf", "limsup", "max", "min", "sup", "injlim",
    "projlim", "inj lim", "proj lim"
  >>

infixFunctions ==
  <<
    "mod", "rem"
  >>

(***************************************************************************)
(* JavaScript values the classifier handles.                               *)
(***************************************************************************)
\* The value of a missing property and of an absent object-literal field.
undefined == "<undefined>"

Range(seq) == {seq[i] : i \in DOMAIN seq}

\* Array.prototype.indexOf: the first position (from 0) of x, or -1.
indexOf(arr, x) ==
  IF \E i \in DOMAIN arr : arr[i] = x
  THEN (CHOOSE i \in DOMAIN arr : arr[i] = x /\ \A j \in 1..(i - 1) : arr[j] /= x) - 1
  ELSE -1

\* SemanticUtil.objectsToKeys / objectsToValues: Object.keys and the values
\* in the same order.
objectsToKeys(obj) == [i \in DOMAIN obj |-> obj[i][1]]

objectsToValues(obj) == [i \in DOMAIN obj |-> obj[i][2]]

\* The property names every object literal ({}) inherits from
\* Object.prototype: a read obj[key] of one of them finds a built-in function
\* (or, for __proto__, the prototype object) when obj has no own property key.
ObjectPrototypeKeys ==
  {"constructor", "toString", "toLocaleString", "valueOf", "hasOwnProperty",
   "isPrototypeOf", "propertyIsEnumerable", "__proto__", "__defineGetter__",
   "__defineSetter__", "__lookupGetter__", "__lookupSetter__"}

\* obj[key] for an object whose own properties are the function own:
\* the own property, else the inherited built-in, else undefined.
PropertyGet(own, key) ==
  IF key \in DOMAIN own THEN [kind |-> "own", value |-> own[key]]
  ELSE IF key \in ObjectPrototypeKeys THEN [kind |-> "inherited", key |-> key]
  ELSE [kind |-> "undefined"]

\* The own properties of an object literal given as <<key, value>> pairs (a
\* repeated key keeps its last value).
OwnProperties(pairs) ==
  [k \in {pairs[i][1] : i \in DOMAIN pairs} |->
     pairs[CHOOSE i \in DOMAIN pairs :
             pairs[i][1] = k /\ \A j \in DOMAIN pairs : pairs[j][1] = k => j <= i][2]]

\* String(v) of an inherited built-in, as the == operator computes it when
\* the other operand is a string.
BuiltinToString(key) ==
  IF key = "__proto__" THEN "[object Object]"
  ELSE "function " \o key \o "() { [native code] }"

\* prop == str for a string str (loose equality): a string equals itself,
\* undefined equals no string, an object is converted to a string first.
LooseEqualsString(prop, str) ==
  CASE prop.kind = "own" -> prop.value = str
    [] prop.kind = "inherited" -> BuiltinToString(prop.key) = str
    [] OTHER -> FALSE

UnknownMeaning == [role |-> "unknown", type |-> "unknown", font |-> "unknown"]

\* What the fields type, role and font of a built-in function read as.
BuiltinAsMeaning == [role |-> undefined, type |-> undefined, font |-> undefined]

\* x || d for a string or absent x.
OrElse(x, d) == IF x = undefined \/ x = "" THEN d ELSE x

\* set.font for an entry of symbolSetToSemantic_ (font is optional).
FieldOrUndefined(rec, field) == IF field \in DOMAIN rec THEN rec[field] ELSE undefined

(***************************************************************************)
(* Construction of the singleton.                                          *)
(***************************************************************************)
invisibleComma_ == "u2063"

invisiblePlus_ == "u2064"

invisibleTimes_ == "u2062"

functionApplication_ == "u2061"

\* The arrays the constructor computes from the field initialisers.
DerivedArrays ==
  LET left == objectsToKeys(openClosePairs)
      right == Append(objectsToValues(openClosePairs), "u301f")
      top == objectsToKeys(topBottomPairs)
      bottom == objectsToValues(topBottomPairs)
  IN [commas |-> <<"uff0c", "ufe50", ",", invisibleComma_>>,
      leftFences |-> left,
      rightFences |-> right,
      topFences |-> top,
      bottomFences |-> bottom,
      allFences |-> neutralFences \o left \o right \o top \o bottom,
      additions |-> Append(additions, invisiblePlus_),
      multiplications |-> Append(multiplications, invisibleTimes_),
      numbers |-> fractions,
      otherNumbers |-> digitsSuperscript \o digitsSubscript \o enclosedNumbers
                         \o fencedNumbers \o punctuatedNumbers,
      prefixFunctions |-> trigonometricFunctions \o hyperbolicFunctions
                            \o algebraicFunctions \o elementaryFunctions]

\* Default assignments of semantic attributes: the ordered list of symbol
\* sets with their type, role and optional font.
symbolSetToSemantic_ ==
  LET this == DerivedArrays
  IN <<
      [set |-> generalPunctuations, type |-> "punctuation", role |-> "unknown"],
      [set |-> colons, type |-> "punctuation", role |-> "colon"],
      [set |-> this.commas, type |-> "punctuation", role |-> "comma"],
      [set |-> ellipses, type |-> "punctuation", role |-> "ellipsis"],
      [set |-> fullStops, type |-> "punctuation", role |-> "fullstop"],
      [set |-> dashes, type |-> "punctuation", role |-> "dash"],
      [set |-> primes, type |-> "punctuation", role |-> "prime"],
      [set |-> degrees, type |-> "punctuation", role |-> "degree"],
      [set |-> this.leftFences, type |-> "fence", role |-> "open"],
      [set |-> this.rightFences, type |-> "fence", role |-> "close"],
      [set |-> this.topFences, type |-> "fence", role |-> "top"],
      [set |-> this.bottomFences, type |-> "fence", role |-> "bottom"],
      [set |-> neutralFences, type |-> "fence", role |-> "neutral"],
      [set |-> smallLatin, type |-> "identifier", role |-> "latinletter", font |-> "normal"],
      [set |-> capitalLatin, type |-> "identifier", role |-> "latinletter", font |-> "normal"],
      [set |-> smallLatinFullWidth, type |-> "identifier", role |-> "latinletter", font |-> "normal"],
      [set |-> capitalLatinFullWidth, type |-> "identifier", role |-> "latinletter", font |-> "normal"],
      [set |-> smallLatinBold, type |-> "identifier", role |-> "latinletter", font |-> "bold"],
      [set |-> capitalLatinBold, type |-> "identifier", role |-> "latinletter", font |-> "bold"],
      [set |-> smallLatinItalic, type |-> "identifier", role |-> "latinletter", font |-> "italic"],
      [set |-> capitalLatinItalic, type |-> "identifier", role |-> "latinletter", font |-> "italic"],
      [set |-> smallLatinBoldItalic, type |-> "identifier", role |-> "latinletter", font |-> "bold-italic"],
      [set |-> capitalLatinBoldItalic, type |-> "identifier", role |-> "latinletter", font |-> "bold-italic"],
      [set |-> smallLatinScript, type |-> "identifier", role |-> "latinletter", font |-> "script"],
      [set |-> capitalLatinScript, type |-> "identifier", role |-> "latinletter", font |-> "script"],
      [set |-> smallLatinBoldScript, type |-> "identifier", role |-> "latinletter", font |-> "bold-script"],
      [set |-> capitalLatinBoldScript, type |-> "identifier", role |-> "latinletter", font |-> "bold-script"],
      [set |-> smallLatinFraktur, type |-> "identifier", role |-> "latinletter", font |-> "fraktur"],
      [set |-> capitalLatinFraktur, type |-> "identifier", role |-> "latinletter", font |-> "fraktur"],
      [set |-> smallLatinDoubleStruck, type |-> "identifier", role |-> "latinletter", font |-> "double-struck"],
      [set |-> capitalLatinDoubleStruck, type |-> "identifier", role |-> "latinletter", font |-> "double-struck"],
      [set |-> smallLatinBoldFraktur, type |-> "identifier", role |-> "latinletter", font |-> "bold-fraktur"],
      [set |-> capitalLatinBoldFraktur, type |-> "identifier", role |-> "latinletter", font |-> "bold-fraktur"],
      [set |-> smallLatinSansSerif, type |-> "identifier", role |-> "latinletter", font |-> "sans-serif"],
      [set |-> capitalLatinSansSerif, type |-> "identifier", role |-> "latinletter", font |-> "sans-serif"],
      [set |-> smallLatinSansSerifBold, type |-> "identifier", role |-> "latinletter", font |-> "sans-serif-bold"],
      [set |-> capitalLatinSansSerifBold, type |-> "identifier", role |-> "latinletter", font |-> "sans-serif-bold"],
      [set |-> smallLatinSansSerifItalic, type |-> "identifier", role |-> "latinletter", font |-> "sans-serif-italic"],
      [set |-> capitalLatinSansSerifItalic, type |-> "identifier", role |-> "latinletter", font |-> "sans-serif-italic"],
      [set |-> smallLatinSansSerifBoldItalic, type |-> "identifier", role |-> "latinletter", font |-> "sans-serif-bold-italic"],
      [set |-> capitalLatinSansSerifBoldItalic, type |-> "identifier", role |-> "latinletter", font |-> "sans-serif-bold-italic"],
      [set |-> smallLatinMonospace, type |-> "identifier", role |-> "latinletter", font |-> "monospace"],
      [set |-> capitalLatinMonospace, type |-> "identifier", role |-> "latinletter", font |-> "monospace"],
      [set |-> latinDoubleStruckItalic, type |-> "identifier", role |-> "latinletter", font |-> "double-struck-italic"],
      [set |-> smallGreek, type |-> "identifier", role |-> "greekletter", font |-> "normal"],
      [set |-> capitalGreek, type |-> "identifier", role |-> "greekletter", font |-> "normal"],
      [set |-> smallGreekBold, type |-> "identifier", role |-> "greekletter", font |-> "bold"],
      [set |-> capitalGreekBold, type |-> "identifier", role |-> "greekletter", font |-> "bold"],
      [set |-> smallGreekItalic, type |-> "identifier", role |-> "greekletter", font |-> "italic"],
      [set |-> capitalGreekItalic, type |-> "identifier", role |-> "greekletter", font |-> "italic"],
      [set |-> smallGreekBoldItalic, type |-> "identifier", role |-> "greekletter", font |-> "bold-italic"],
      [set |-> capitalGreekBoldItalic, type |-> "identifier", role |-> "greekletter", font |-> "bold-italic"],
      [set |-> smallGreekSansSerifBold, type |-> "identifier", role |-> "greekletter", font |-> "sans-serif-bold"],
      [set |-> capitalGreekSansSerifBold, type |-> "identifier", role |-> "greekletter", font |-> "sans-serif-bold"],
      [set |-> capitalGreekSansSerifBoldItalic, type |-> "identifier", role |-> "greekletter", font |-> "sans-serif-bold-italic"],
      [set |-> smallGreekSansSerifBoldItalic, type |-> "identifier", role |-> "greekletter", font |-> "sans-serif-bold-italic"],
      [set |-> greekDoubleStruck, type |-> "identifier", role |-> "greekletter", font |-> "double-struck"],
      [set |-> greekSpecial, type |-> "identifier", role |-> "greekletter", font |-> "normal"],
      [set |-> greekSpecialBold, type |-> "identifier", role |-> "greekletter", font |-> "bold"],
      [set |-> greekSpecialItalic, type |-> "identifier", role |-> "greekletter", font |-> "italic"],
      [set |-> greekSpecialSansSerifBold, type |-> "identifier", role |-> "greekletter", font |-> "sans-serif-bold"],
      [set |-> hebrewLetters, type |-> "identifier", role |-> "otherletter", font |-> "normal"],
      [set |-> digitsNormal, type |-> "number", role |-> "integer", font |-> "normal"],
      [set |-> digitsFullWidth, type |-> "number", role |-> "integer", font |-> "normal"],
      [set |-> digitsBold, type |-> "number", role |-> "integer", font |-> "bold"],
      [set |-> digitsDoubleStruck, type |-> "number", role |-> "integer", font |-> "double-struck"],
      [set |-> digitsSansSerif, type |-> "number", role |-> "integer", font |-> "sans-serif"],
      [set |-> digitsSansSerifBold, type |-> "number", role |-> "integer", font |-> "sans-serif-bold"],
      [set |-> digitsMonospace, type |-> "number", role |-> "integer", font |-> "monospace"],
      [set |-> this.numbers, type |-> "number", role |-> "float"],
      [set |-> this.otherNumbers, type |-> "number", role |-> "othernumber"],
      [set |-> this.additions, type |-> "operator", role |-> "addition"],
      [set |-> this.multiplications, type |-> "operator", role |-> "multiplication"],
      [set |-> subtractions, type |-> "operator", role |-> "subtraction"],
      [set |-> divisions, type |-> "operator", role |-> "division"],
      [set |-> prefixOps, type |-> "operator", role |-> "prefix operator"],
      [set |-> prefixOpsBold, type |-> "operator", role |-> "prefix operator", font |-> "bold"],
      [set |-> prefixOpsItalic, type |-> "operator", role |-> "prefix operator", font |-> "italic"],
      [set |-> prefixOpsSansSerifBold, type |-> "operator", role |-> "prefix operator", font |-> "sans-serif-bold"],
      [set |-> equalities, type |-> "relation", role |-> "equality"],
      [set |-> inequalities, type |-> "relation", role |-> "inequality"],
      [set |-> setRelations, type |-> "relation", role |-> "set"],
      [set |-> elementRelations, type |-> "operator", role |-> "element"],
      [set |-> relations, type |-> "relation", role |-> "unknown"],
      [set |-> arrows, type |-> "relation", role |-> "arrow"],
      [set |-> sumOps, type |-> "largeop", role |-> "sum"],
      [set |-> intOps, type |-> "largeop", role |-> "integral"],
      [set |-> geometryOps, type |-> "operator", role |-> "geometry"],
      [set |-> limitFunctions, type |-> "function", role |-> "limit function"],
      [set |-> this.prefixFunctions, type |-> "function", role |-> "prefix function"],
      [set |-> infixFunctions, type |-> "operator", role |-> "prefix function"]
     >>

\* (mutant of SetMeaning: the font of the set is not taken over)
SetMeaningNoFont(set) ==
  [role |-> OrElse(set.role, "unknown"),
   type |-> OrElse(set.type, "unknown"),
   font |-> "unknown"]

\* What set.set.forEach writes into result for one entry of
\* symbolSetToSemantic_: result[symbol] = {role, type, font} for each of its
\* symbols, replacing what an earlier set wrote.
SetMeaning(set) ==
  [role |-> OrElse(set.role, "unknown"),
   type |-> OrElse(set.type, "unknown"),
   font |-> OrElse(FieldOrUndefined(set, "font"), "unknown")]

\* (mutant of writeSet: a symbol keeps the meaning of the first set that has it)
writeSetKeepFirst(set, result) ==
  result @@ [symbol \in Range(set.set) |-> SetMeaning(set)]

writeSet(set, result) ==
  [symbol \in Range(set.set) |-> SetMeaning(set)] @@ result

\* initMeaning_: the loop over the sets in list order, starting from the
\* empty dictionary.  initMeaningLoop runs the iterations lo..hi on the
\* dictionary result (lo..mid first, then mid+1..hi on what they leave).
RECURSIVE initMeaningLoop(_, _, _, _)
initMeaningLoop(sets, lo, hi, result) ==
  IF lo > hi THEN result
  ELSE IF lo = hi THEN writeSet(sets[lo], result)
  ELSE LET mid == (lo + hi) \div 2
           firstHalf == initMeaningLoop(sets, lo, mid, result)
       IN \* (the test makes TLC compute firstHalf before the second half runs)
          IF DOMAIN firstHalf = {}
          THEN initMeaningLoop(sets, mid + 1, hi, <<>>)
          ELSE initMeaningLoop(sets, mid + 1, hi, firstHalf)

initMeaning_(sets) == initMeaningLoop(sets, 1, Len(sets), <<>>)

\* The SemanticAttr object the constructor leaves: the pairing tables, the
\* neutral vocabulary, the invisible glyphs and the dictionary meaning_.
constructor ==
  [constructed |-> TRUE,
   openClosePairs |-> OwnProperties(openClosePairs),
   topBottomPairs |-> OwnProperties(topBottomPairs),
   neutralFences |-> neutralFences,
   invisibleComma_ |-> invisibleComma_,
   invisiblePlus_ |-> invisiblePlus_,
   invisibleTimes_ |-> invisibleTimes_,
   functionApplication_ |-> functionApplication_,
   meaning_ |-> initMeaning_(symbolSetToSemantic_)]

\* Before the first getInstance() call there is no instance.
NoInstance == [constructed |-> FALSE]

\* goog.addSingletonGetter(SemanticAttr): getInstance() constructs the
\* instance on the first call and returns the same one afterwards.
getInstance(inst) == IF inst.constructed THEN inst ELSE constructor

(***************************************************************************)
(* The classifier operations.  A method that runs on the instance yields   *)
(* its return value and the instance as the call leaves it.                *)
(***************************************************************************)
\* (mutant of equal: the font is not compared)
equalTypeRole(meaning1, meaning2) ==
  /\ meaning1.type = meaning2.type
  /\ meaning1.role = meaning2.role

\* equal: both meanings contain the same field entries.
equal(meaning1, meaning2) ==
  /\ meaning1.type = meaning2.type
  /\ meaning1.role = meaning2.role
  /\ meaning1.font = meaning2.font

\* (mutant of lookupMeaning_: a miss is remembered in the dictionary, without
\* its font)
lookupMeaning_Memo(this, symbol) ==
  LET found == PropertyGet(this.meaning_, symbol)
  IN CASE found.kind = "own" -> [returns |-> found.value, this |-> this]
       [] found.kind = "inherited" -> [returns |-> BuiltinAsMeaning, this |-> this]
       [] OTHER ->
            [returns |-> UnknownMeaning,
             this |-> [this EXCEPT !.meaning_ =
                         [s \in {symbol} |->
                            [role |-> "unknown", type |-> "unknown", font |-> undefined]]
                         @@ this.meaning_]]

\* lookupMeaning_: this.meaning_[symbol] || {unknown, unknown, unknown}.  An
\* own entry and an inherited built-in are both objects, hence truthy.
lookupMeaning_(this, symbol) ==
  LET found == PropertyGet(this.meaning_, symbol)
  IN [returns |-> CASE found.kind = "own" -> found.value
                    [] found.kind = "inherited" -> BuiltinAsMeaning
                    [] OTHER -> UnknownMeaning,
      this |-> this]

\* (mutant of isMatchingFence_: the pairing tables are consulted before the
\* neutral vocabulary)
isMatchingFence_PairsFirst(this, open, close) ==
  [returns |->
     \/ LooseEqualsString(PropertyGet(this.openClosePairs, open), close)
     \/ LooseEqualsString(PropertyGet(this.topBottomPairs, open), close)
     \/ indexOf(this.neutralFences, open) /= -1 /\ open = close,
   this |-> this]

\* (mutant of isMatchingFence_: any glyph matches itself)
isMatchingFence_SelfMatch(this, open, close) ==
  [returns |->
     \/ open = close
     \/ LooseEqualsString(PropertyGet(this.openClosePairs, open), close)
     \/ LooseEqualsString(PropertyGet(this.topBottomPairs, open), close),
   this |-> this]

\* (mutant of isMatchingFence_: any left fence of a pairing table matches any
\* right fence of the same table)
isMatchingFence_AnySides(this, open, close) ==
  [returns |->
     IF indexOf(this.neutralFences, open) /= -1
     THEN open = close
     ELSE \/ /\ open \in DOMAIN this.openClosePairs
             /\ \E k \in DOMAIN this.openClosePairs : this.openClosePairs[k] = close
          \/ /\ open \in DOMAIN this.topBottomPairs
             /\ \E k \in DOMAIN this.topBottomPairs : this.topBottomPairs[k] = close,
   this |-> this]

\* (mutant of isMatchingFence_: a fence found to match itself is added to the
\* left/right pairing table)
isMatchingFence_Register(this, open, close) ==
  IF indexOf(this.neutralFences, open) /= -1
  THEN [returns |-> open = close,
        this |-> IF open = close
                 THEN [this EXCEPT !.openClosePairs = [k \in {open} |-> close] @@ @]
                 ELSE this]
  ELSE [returns |->
          \/ LooseEqualsString(PropertyGet(this.openClosePairs, open), close)
          \/ LooseEqualsString(PropertyGet(this.topBottomPairs, open), close),
        this |-> this]

\* isMatchingFence_: a neutral fence matches itself only; any other open
\* fence matches the value the pairing tables hold for it.
isMatchingFence_(this, open, close) ==
  [returns |->
     IF indexOf(this.neutralFences, open) /= -1
     THEN open = close
     ELSE \/ LooseEqualsString(PropertyGet(this.openClosePairs, open), close)
          \/ LooseEqualsString(PropertyGet(this.topBottomPairs, open), close),
   this |-> this]

lookupMeaning(inst, symbol) == lookupMeaning_(getInstance(inst), symbol)

\* lookupType and lookupRole, called on the instance.
lookupType(inst, symbol) ==
  LET this == getInstance(inst) IN [returns |-> "unknown", this |-> this]

lookupRole(inst, symbol) ==
  LET this == getInstance(inst) IN [returns |-> "unknown", this |-> this]

isMatchingFence(inst, open, close) == isMatchingFence_(getInstance(inst), open, close)

invisibleTimes(inst) ==
  LET this == getInstance(inst) IN [returns |-> this.invisibleTimes_, this |-> this]

invisiblePlus(inst) ==
  LET this == getInstance(inst) IN [returns |-> this.invisiblePlus_, this |-> this]

invisibleComma(inst) ==
  LET this == getInstance(inst) IN [returns |-> this.invisibleComma_, this |-> this]

functionApplication(inst) ==
  LET this == getInstance(inst) IN [returns |-> this.functionApplication_, this |-> this]

\* (mutant of isMatchingFenceRole: top and bottom fences are left out)
isMatchingFenceRoleNoTop(open, close) ==
  \/ open = "open" /\ close = "close"
  \/ open = "neutral" /\ close = "neutral"

isMatchingFenceRole(open, close) ==
  \/ open = "open" /\ close = "close"
  \/ open = "neutral" /\ close = "neutral"
  \/ open = "top" /\ close = "bottom"

\* (mutant of isOpeningFence: a top fence opens too)
isOpeningFenceOrTop(fence) == fence = "open" \/ fence = "neutral" \/ fence = "top"

isOpeningFence(fence) == fence = "open" \/ fence = "neutral"

isClosingFence(fence) == fence = "close" \/ fence = "neutral"

Ds ==
  <<"d", "u2146", "uff44", "u1d41d", "u1d451", "u1d4b9", "u1d4ed", "u1d521",
    "u1d555", "u1d589", "u1d5bd", "u1d5f1", "u1d625", "u1d68d">>

isCharacterD(chr) == indexOf(Ds, chr) /= -1

(***************************************************************************)
(* The tree annotator's case for tables from empheq (CaseEmpheq).  The     *)
(* semantic tree is a function from node ids to nodes; a node's mathmlTree *)
(* is the id of its element (NoNode: it has none).  The elements are a     *)
(* function from element ids to elements; parent NoNode is a null          *)
(* parentNode.                                                             *)
(***************************************************************************)
NoNode == 0

Max(S) == CHOOSE n \in S : \A m \in S : m <= n

\* DomUtil.tagName: the tag name in upper case.
tagName(document, e) ==
  CASE document[e].tag = "mtable" -> "MTABLE"
    [] document[e].tag = "mrow" -> "MROW"
    [] document[e].tag = "mtr" -> "MTR"
    [] document[e].tag = "mi" -> "MI"
    [] document[e].tag = "math" -> "MATH"

\* The id createElement gives the next element.
NewElement(document) == Max(DOMAIN document) + 1

\* DomUtil.createElement(tag): an element without parent, children and
\* attributes.
createElement(document, tag) ==
  [e \in DOMAIN document \cup {NewElement(document)} |->
     IF e \in DOMAIN document THEN document[e]
     ELSE [tag |-> tag, parent |-> NoNode, children |-> <<>>, attributes |-> <<>>]]

Without(children, e) == SelectSeq(children, LAMBDA c : c /= e)

\* parent.insertBefore(newNode, ref) for a newNode that has no parent.
insertBefore(document, parent, newNode, ref) ==
  LET at == CHOOSE i \in DOMAIN document[parent].children :
              document[parent].children[i] = ref
  IN [document EXCEPT
        ![parent].children = SubSeq(@, 1, at - 1) \o <<newNode>> \o SubSeq(@, at, Len(@)),
        ![newNode].parent = parent]

\* (mutant of appendChild: the child stays among the children of its old
\* parent as well)
appendChildCopy(document, parent, child) ==
  [e \in DOMAIN document |->
     IF e = parent THEN [document[e] EXCEPT !.children = Append(@, child)]
     ELSE IF e = child THEN [document[e] EXCEPT !.parent = parent]
     ELSE document[e]]

\* parent.appendChild(child): child leaves its old parent, if it has one, and
\* becomes the last child of parent.
appendChild(document, parent, child) ==
  [e \in DOMAIN document |->
     IF e = parent THEN [document[e] EXCEPT !.children = Append(Without(@, child), child)]
     ELSE IF e = child THEN [document[e] EXCEPT !.parent = parent]
     ELSE IF e = document[child].parent THEN [document[e] EXCEPT !.children = Without(@, child)]
     ELSE document[e]]

\* The attributes the annotator writes for a semantic node: its type, role,
\* font, id, child ids, content ids and parent id.
SemanticAttributes(node) ==
  [a \in {"data-semantic-type", "data-semantic-role", "data-semantic-font",
          "data-semantic-id", "data-semantic-children", "data-semantic-content",
          "data-semantic-parent"} |->
     CASE a = "data-semantic-type" -> <<node.type>>
       [] a = "data-semantic-role" -> <<node.role>>
       [] a = "data-semantic-font" -> <<node.font>>
       [] a = "data-semantic-id" -> <<node.id>>
       [] a = "data-semantic-children" -> node.childNodes
       [] a = "data-semantic-content" -> node.contentNodes
       [] OTHER -> <<node.parent>>]

\* setAttributes(mml, semantic): writes the attributes of the semantic node
\* onto the element; the other attributes of the element stay.
setAttributes(document, e, node) ==
  [document EXCEPT ![e].attributes = SemanticAttributes(node) @@ @]

\* EnrichMathml.walkTree(semantic) on a subtree whose nodes have elements:
\* children and content first, then the node; each gets its attributes
\* written on its element.
RECURSIVE walkTree(_, _, _)
RECURSIVE walkTrees(_, _, _)
walkTree(document, tree, n) ==
  LET below == walkTrees(document, tree, tree[n].childNodes \o tree[n].contentNodes)
  IN IF tree[n].mathmlTree = NoNode THEN below
     ELSE setAttributes(below, tree[n].mathmlTree, tree[n])

walkTrees(document, tree, nodes) ==
  IF nodes = <<>> THEN document
  ELSE walkTrees(walkTree(document, tree, Head(nodes)), tree, Tail(nodes))

\* node.annotation['Emph'] is defined.
HasEmph(node) == "Emph" \in DOMAIN node.annotation

\* node.annotation['Emph']?.length
EmphLength(node) == IF HasEmph(node) THEN Len(node.annotation["Emph"]) ELSE 0

\* (mutant of DeleteEmph: the node loses its children with the marker)
DeleteEmphAndChildren(tree, n) ==
  [tree EXCEPT ![n].annotation = [k \in DOMAIN @ \ {"Emph"} |-> @[k]],
               ![n].childNodes = <<>>]

\* delete node.annotation['Emph']
DeleteEmph(tree, n) ==
  [tree EXCEPT ![n].annotation = [k \in DOMAIN @ \ {"Emph"} |-> @[k]]]

\* CaseEmpheq.test
test(semantic) == semantic.mathmlTree /= NoNode /\ HasEmph(semantic)

\* The loop over the content nodes in finalizeTable.
RECURSIVE finalizeContent(_, _)
finalizeContent(st, nodes) ==
  IF nodes = <<>> THEN st
  ELSE LET x == Head(nodes)
       IN finalizeContent(
            [st EXCEPT !.document = setAttributes(@, st.semantic[x].mathmlTree, st.semantic[x]),
                       !.semantic = DeleteEmph(@, x)],
            Tail(nodes))

\* finalizeTable; st holds the semantic tree, the elements and this.mrows.
finalizeTable(st, n) ==
  LET node == st.semantic[n]
      own == [st EXCEPT !.document = setAttributes(@, node.mathmlTree, node),
                        !.semantic = DeleteEmph(@, n)]
      content == finalizeContent(own, node.contentNodes)
  IN [content EXCEPT !.document = walkTrees(@, content.semantic, node.childNodes)]

RECURSIVE recurseToTableNoReturn(_, _)
RECURSIVE recurseToTablesNoReturn(_, _)
\* (mutant of recurseToTable: no return after finalizeTable, the recursion
\* goes on below the marked table)
recurseToTableNoReturn(st, n) ==
  LET node == st.semantic[n]
      isTable == tagName(st.document, node.mathmlTree) = "MTABLE" /\ EmphLength(node) > 0
  IN IF node.mathmlTree = NoNode \/ (isTable /\ node.annotation["Emph"][1] /= "table")
     THEN LET newNode == NewElement(st.document)
              added == [st EXCEPT
                          !.document = setAttributes(createElement(@, "mrow"), newNode, node),
                          !.mrows = <<newNode>> \o @]
          IN recurseToTablesNoReturn(recurseToTablesNoReturn(added, node.childNodes),
                                     node.contentNodes)
     ELSE IF isTable /\ node.annotation["Emph"][1] = "table"
     THEN recurseToTablesNoReturn(recurseToTablesNoReturn(finalizeTable(st, n), node.childNodes),
                                  node.contentNodes)
     ELSE recurseToTablesNoReturn(
            recurseToTablesNoReturn([st EXCEPT !.document = setAttributes(@, node.mathmlTree, node)],
                                    node.childNodes),
            node.contentNodes)

recurseToTablesNoReturn(st, nodes) ==
  IF nodes = <<>> THEN st
  ELSE recurseToTablesNoReturn(recurseToTableNoReturn(st, Head(nodes)), Tail(nodes))

\* recurseToTable, and its forEach over a list of nodes.
RECURSIVE recurseToTable(_, _)
RECURSIVE recurseToTables(_, _)
recurseToTable(st, n) ==
  LET node == st.semantic[n]
      isTable == tagName(st.document, node.mathmlTree) = "MTABLE" /\ EmphLength(node) > 0
  IN IF node.mathmlTree = NoNode \/ (isTable /\ node.annotation["Emph"][1] /= "table")
     THEN LET newNode == NewElement(st.document)
              added == [st EXCEPT
                          !.document = setAttributes(createElement(@, "mrow"), newNode, node),
                          !.mrows = <<newNode>> \o @]
          IN recurseToTables(recurseToTables(added, node.childNodes), node.contentNodes)
     ELSE IF isTable /\ node.annotation["Emph"][1] = "table"
     THEN finalizeTable(st, n)
     ELSE recurseToTables(
            recurseToTables([st EXCEPT !.document = setAttributes(@, node.mathmlTree, node)],
                            node.childNodes),
            node.contentNodes)

recurseToTables(st, nodes) ==
  IF nodes = <<>> THEN st
  ELSE recurseToTables(recurseToTable(st, Head(nodes)), Tail(nodes))

\* The loop over this.mrows in getMathml: each takes this.mml as its last
\* child and becomes this.mml.
RECURSIVE nestInMrows(_, _, _)
nestInMrows(document, mrows, mml) ==
  IF mrows = <<>> THEN [document |-> document, mml |-> mml]
  ELSE nestInMrows(appendChild(document, Head(mrows), mml), Tail(mrows), Head(mrows))

\* new CaseEmpheq(semantic)
CaseEmpheq(tree, n) == [semantic |-> n, mml |-> tree[n].mathmlTree, mrows |-> <<>>]

\* getMathml.  With mrows collected and this.mml without parentNode, the call
\* parent.insertBefore throws a TypeError.
getMathml(this, tree, document) ==
  LET st == recurseToTable([semantic |-> tree, document |-> document, mrows |-> this.mrows],
                           this.semantic)
  IN IF st.mrows = <<>>
     THEN [this |-> this, semantic |-> st.semantic, document |-> st.document,
           threw |-> FALSE, returns |-> this.mml]
     ELSE IF st.document[this.mml].parent = NoNode
     THEN [this |-> [this EXCEPT !.mrows = st.mrows], semantic |-> st.semantic,
           document |-> st.document, threw |-> TRUE, returns |-> NoNode]
     ELSE LET newRow == NewElement(st.document)
              parent == st.document[this.mml].parent
              inserted == insertBefore(createElement(st.document, "mrow"), parent,
                                       newRow, this.mml)
              nested == nestInMrows(inserted, st.mrows, this.mml)
          IN [this |-> [this EXCEPT !.mrows = st.mrows, !.mml = nested.mml],
              semantic |-> st.semantic,
              document |-> appendChild(nested.document, newRow, nested.mml),
              threw |-> FALSE, returns |-> nested.mml]

(***************************************************************************)
(* The state: the singleton, the last classifier call (which tree build    *)
(* issued it, with what arguments, and what it returned), and one earlier  *)
(* lookupMeaning call of the first build, kept for comparison with later   *)
(* ones; the semantic tree and the elements the annotator works on, the    *)
(* CaseEmpheq object with the outcome of its getMathml, and both trees as  *)
(* they were when getMathml was entered.                                   *)
(***************************************************************************)
VARIABLES instance_, ret, noted, semantic, document, enrichCase, before,
          scan, run, resolving

vars == <<instance_, ret, noted, semantic, document, enrichCase, before,
          scan, run, resolving>>

classifierVars == <<instance_, ret, noted>>

annotatorVars == <<semantic, document, enrichCase, before>>

builderVars == <<scan, run, resolving>>

\* The tree builder before it is given a run of tokens.
BuilderIdle ==
  /\ scan = [started |-> FALSE]
  /\ run = [started |-> FALSE]
  /\ resolving = [started |-> FALSE]

\* The tree builds that share the classifier.
NumBuilds == 2

Builds == 1..NumBuilds

\* Symbols looked up: a fence, a neutral fence that is also a left fence
\* (u23b8), a letter, the bold partial differential (u1d6db) and the plain
\* nabla (u2207), an operator that two symbol sets contain (u2020), a
\* function name, a symbol of no set (u2603) and two names that
\* Object.prototype defines.
ProbeSymbols ==
  {"(", "u23b8", "a", "u1d6db", "u2020", "sin", "u2207", "u2603",
   "constructor", "__proto__"}

\* The symbols whose lookup may be kept for comparison with a later one: a
\* registered one, one of no set and an Object.prototype name.
NotedSymbols == {"a", "u2603", "constructor"}

\* The glyph pairs passed to the fence matcher: registered left/right and
\* top/bottom pairs, mixed ones, neutral fences with themselves and with
\* others (u23b8 is also a left fence, with partner u23b9), a glyph of no
\* fence table and an Object.prototype name.
ProbeFences ==
  {<<"(", ")">>, <<"(", "|">>, <<"(", "u23b5">>, <<"u23b4", "u23b5">>, <<"u23b4", ")">>,
   <<"|", "|">>, <<"|", ")">>, <<"u23b8", "u23b9">>, <<"u23b8", "u23b8">>,
   <<"u2603", ")">>, <<"constructor", ")">>}

ProbeRoles == {"open", "close", "top", "bottom", "neutral"}

\* The role pairs passed to isMatchingFenceRole.
ProbeRolePairs ==
  {<<"open", "close">>, <<"top", "bottom">>, <<"neutral", "neutral">>,
   <<"open", "bottom">>, <<"close", "close">>, <<"neutral", "close">>, <<"top", "neutral">>}

\* Two classifications that differ in font only, and the default.
ProbeMeanings ==
  {UnknownMeaning,
   [role |-> "latinletter", type |-> "identifier", font |-> "normal"],
   [role |-> "latinletter", type |-> "identifier", font |-> "bold"]}

\* The symbols passed to lookupType and lookupRole: one of a symbol set and
\* one of none.
ProbeTyped == {"a", "u2603"}

\* A plain d, the d of two fonts (italic, bold-italic) and a capital.
ProbeChars == {"d", "u1d451", "u1d485", "D"}

Init ==
  /\ instance_ = NoInstance
  /\ ret = [build |-> 0, op |-> "none", args |-> <<>>, returns |-> FALSE]
  /\ noted = [set |-> FALSE]
  /\ semantic = <<>>
  /\ document = <<>>
  /\ enrichCase = [created |-> FALSE]
  /\ before = [set |-> FALSE]
  /\ BuilderIdle

Returned(b, op, args, value) ==
  ret' = [build |-> b, op |-> op, args |-> args, returns |-> value]

LookupMeaning(b, symbol) ==
  LET out == lookupMeaning(instance_, symbol)
  IN /\ Returned(b, "lookupMeaning", <<symbol>>, out.returns)
     /\ instance_' = out.this
     /\ \/ noted' = noted
        \/ /\ ~noted.set
           /\ b = 1
           /\ symbol \in NotedSymbols
           /\ noted' = [set |-> TRUE, symbol |-> symbol, returns |-> out.returns]
     /\ UNCHANGED <<annotatorVars, builderVars>>

IsMatchingFence(b, open, close) ==
  LET out == isMatchingFence(instance_, open, close)
  IN /\ Returned(b, "isMatchingFence", <<open, close>>, out.returns)
     /\ instance_' = out.this
     /\ UNCHANGED noted
     /\ UNCHANGED <<annotatorVars, builderVars>>

InvisibleGlyph(b) ==
  \E op \in {"invisibleTimes", "invisiblePlus", "invisibleComma", "functionApplication"} :
    LET out == CASE op = "invisibleTimes" -> invisibleTimes(instance_)
                 [] op = "invisiblePlus" -> invisiblePlus(instance_)
                 [] op = "invisibleComma" -> invisibleComma(instance_)
                 [] OTHER -> functionApplication(instance_)
    IN /\ Returned(b, op, <<>>, out.returns)
       /\ instance_' = out.this
       /\ UNCHANGED noted
       /\ UNCHANGED <<annotatorVars, builderVars>>
     /\ UNCHANGED <<annotatorVars, builderVars>>

IsMatchingFenceRole(b, open, close) ==
  /\ Returned(b, "isMatchingFenceRole", <<open, close>>, isMatchingFenceRole(open, close))
  /\ UNCHANGED <<instance_, noted>>
  /\ UNCHANGED <<annotatorVars, builderVars>>

Equal(b, meaning1, meaning2) ==
  /\ Returned(b, "equal", <<meaning1, meaning2>>, equal(meaning1, meaning2))
  /\ UNCHANGED <<instance_, noted>>
  /\ UNCHANGED <<annotatorVars, builderVars>>

IsOpeningFence(b, fence) ==
  /\ Returned(b, "isOpeningFence", <<fence>>, isOpeningFence(fence))
  /\ UNCHANGED <<instance_, noted>>
  /\ UNCHANGED <<annotatorVars, builderVars>>

IsClosingFence(b, fence) ==
  /\ Returned(b, "isClosingFence", <<fence>>, isClosingFence(fence))
  /\ UNCHANGED <<instance_, noted>>
  /\ UNCHANGED <<annotatorVars, builderVars>>

LookupTypeRole(b, symbol) ==
  \E op \in {"lookupType", "lookupRole"} :
    LET out == IF op = "lookupType" THEN lookupType(instance_, symbol)
               ELSE lookupRole(instance_, symbol)
    IN /\ Returned(b, op, <<symbol>>, out.returns)
       /\ instance_' = out.this
       /\ UNCHANGED noted
       /\ UNCHANGED <<annotatorVars, builderVars>>

IsCharacterD(b, chr) ==
  /\ Returned(b, "isCharacterD", <<chr>>, isCharacterD(chr))
  /\ UNCHANGED <<instance_, noted>>
  /\ UNCHANGED <<annotatorVars, builderVars>>

Next ==
  \E b \in Builds :
    \/ \E symbol \in ProbeSymbols : LookupMeaning(b, symbol)
    \/ \E fences \in ProbeFences : IsMatchingFence(b, fences[1], fences[2])
    \/ InvisibleGlyph(b)
    \/ \E roles \in ProbeRolePairs : IsMatchingFenceRole(b, roles[1], roles[2])
    \/ \E meaning1 \in ProbeMeanings, meaning2 \in ProbeMeanings : Equal(b, meaning1, meaning2)
    \/ \E fence \in ProbeRoles : IsOpeningFence(b, fence)
    \/ \E fence \in ProbeRoles : IsClosingFence(b, fence)
    \/ \E chr \in ProbeChars : IsCharacterD(b, chr)
    \/ \E symbol \in ProbeTyped : LookupTypeRole(b, symbol)

Spec == Init /\ [][Next]_vars

(***************************************************************************)
(* The empheq case as a state machine.  The trees it starts from: a case   *)
(* root with its own element (attached to a math element or not), below it *)
(* a chain of depth ancestors of which those in own have their own         *)
(* element, below them a table of two rows (with elements) whose Emph      *)
(* annotation names it as the table, names something else or is missing;   *)
(* the case root may have a first child beside the chain.                  *)
(***************************************************************************)
MaxDepth == 3

CaseRoot == 1

Ancestor(i) == 1 + i

TableNode(depth) == depth + 2

Rows(depth) == <<depth + 3, depth + 4>>

Left(depth) == depth + 5

MathElement(depth) == depth + 6

TableMarks == {"table", "other", "none"}

Annotation(emph) == [k \in {"Emph"} |-> emph]

\* The nearest node with an element on the chain from position i down.
RECURSIVE NextElement(_, _, _)
NextElement(depth, own, i) ==
  IF i > depth THEN TableNode(depth)
  ELSE IF i \in own THEN Ancestor(i)
  ELSE NextElement(depth, own, i + 1)

SemanticTree(depth, own, mark, left, bare) ==
  LET nodes == (1..(depth + 4)) \cup (IF left THEN {Left(depth)} ELSE {})
  IN [n \in nodes |->
        IF n = CaseRoot
        THEN [id |-> n, type |-> "fenced", role |-> "leftright", font |-> "unknown",
              parent |-> NoNode,
              childNodes |-> (IF left THEN <<Left(depth)>> ELSE <<>>) \o <<2>>,
              contentNodes |-> <<>>, annotation |-> Annotation(<<"top">>),
              mathmlTree |-> n]
        ELSE IF n <= depth + 1
        THEN [id |-> n, type |-> "fenced", role |-> "leftright", font |-> "unknown",
              parent |-> n - 1, childNodes |-> <<n + 1>>, contentNodes |-> <<>>,
              annotation |-> Annotation(<<"fence">>),
              mathmlTree |-> IF (n - 1) \in own THEN n ELSE NoNode]
        ELSE IF n = TableNode(depth)
        THEN [id |-> n, type |-> "table", role |-> "unknown", font |-> "unknown",
              parent |-> n - 1, childNodes |-> Rows(depth), contentNodes |-> <<>>,
              annotation |-> CASE mark = "table" -> Annotation(<<"table">>)
                               [] mark = "other" -> Annotation(<<"left">>)
                               [] OTHER -> <<>>,
              mathmlTree |-> n]
        ELSE IF n = Left(depth)
        THEN [id |-> n, type |-> "identifier", role |-> "latinletter", font |-> "italic",
              parent |-> CaseRoot, childNodes |-> <<>>, contentNodes |-> <<>>,
              annotation |-> <<>>, mathmlTree |-> n]
        ELSE [id |-> n, type |-> "row", role |-> "table", font |-> "unknown",
              parent |-> TableNode(depth), childNodes |-> <<>>, contentNodes |-> <<>>,
              annotation |-> <<>>,
              mathmlTree |-> IF bare /\ n = depth + 4 THEN NoNode ELSE n]]

\* The elements of that semantic tree: those of the nodes that have one, each
\* with an id attribute, and the math element if the case root is attached.
MathmlTree(depth, own, mark, left, bare, attached) ==
  LET tree == SemanticTree(depth, own, mark, left, bare)
      ofNodes == {n \in DOMAIN tree : tree[n].mathmlTree /= NoNode}
      elements == ofNodes \cup (IF attached THEN {MathElement(depth)} ELSE {})
      above(n) == {m \in ofNodes : m < n /\ m <= depth + 1}
  IN [e \in elements |->
        [tag |-> CASE e = TableNode(depth) -> "mtable"
                   [] e \in Range(Rows(depth)) -> "mtr"
                   [] e = Left(depth) -> "mi"
                   [] e = MathElement(depth) -> "math"
                   [] OTHER -> "mrow",
         parent |-> IF e = MathElement(depth) THEN NoNode
                    ELSE IF e = CaseRoot
                    THEN (IF attached THEN MathElement(depth) ELSE NoNode)
                    ELSE IF e \in Range(Rows(depth)) THEN TableNode(depth)
                    ELSE IF e = Left(depth) THEN CaseRoot
                    ELSE Max(above(e)),
         children |-> IF e = MathElement(depth) THEN <<CaseRoot>>
                      ELSE IF e = TableNode(depth) THEN SelectSeq(Rows(depth), LAMBDA r : r \in ofNodes)
                      ELSE IF e \in Range(Rows(depth)) \/ e = Left(depth) THEN <<>>
                      ELSE (IF e = CaseRoot /\ left THEN <<Left(depth)>> ELSE <<>>)
                           \o <<NextElement(depth, own, e)>>,
         attributes |-> [a \in {"id"} |-> <<e>>]]]

InitEmpheq ==
  /\ instance_ = NoInstance
  /\ ret = [build |-> 0, op |-> "none", args |-> <<>>, returns |-> FALSE]
  /\ noted = [set |-> FALSE]
  /\ \E depth \in 0..MaxDepth, mark \in TableMarks, left \in BOOLEAN, attached \in BOOLEAN :
       \E own \in SUBSET (1..depth), bare \in BOOLEAN :
         /\ semantic = SemanticTree(depth, own, mark, left, bare)
         /\ document = MathmlTree(depth, own, mark, left, bare, attached)
  /\ enrichCase = [created |-> FALSE]
  /\ before = [set |-> FALSE]
  /\ BuilderIdle

\* The annotator reaches the case root: the case applies, its object is made
\* and getMathml runs.
GetMathml ==
  /\ ~enrichCase.created
  /\ test(semantic[CaseRoot])
  /\ LET out == getMathml(CaseEmpheq(semantic, CaseRoot), semantic, document)
     IN /\ semantic' = out.semantic
        /\ document' = out.document
        /\ enrichCase' = [created |-> TRUE, mml |-> out.this.mml, mrows |-> out.this.mrows,
                          threw |-> out.threw, returns |-> out.returns]
  /\ before' = [set |-> TRUE, semantic |-> semantic, document |-> document]
  /\ UNCHANGED <<classifierVars, builderVars>>

NextEmpheq == GetMathml

SpecEmpheq == InitEmpheq /\ [][NextEmpheq]_vars

(***************************************************************************)
(* Vocabulary of the properties.                                           *)
(***************************************************************************)
\* The positions in symbolSetToSemantic_ of the sets that contain symbol.
SetsWith(symbol) ==
  {i \in DOMAIN symbolSetToSemantic_ : symbol \in Range(symbolSetToSemantic_[i].set)}

\* The symbols with an entry in the registry.
RegisteredSymbols ==
  UNION {Range(symbolSetToSemantic_[i].set) : i \in DOMAIN symbolSetToSemantic_}

\* The symbols that more than one symbol set contains.
OverlapSymbols == {s \in RegisteredSymbols : Cardinality(SetsWith(s)) > 1}

\* Type, role and font of the last set in list order that contains symbol.
MeaningOfLastSet(symbol) ==
  LET set == symbolSetToSemantic_[Max(SetsWith(symbol))]
  IN [role |-> set.role, type |-> set.type,
      font |-> IF "font" \in DOMAIN set THEN set.font ELSE "unknown"]

\* The glyphs of the fence tables, and the entries of the two pairing tables.
FenceGlyphs == Range(DerivedArrays.allFences)

NeutralGlyphs == Range(neutralFences)

PairEntries == Range(openClosePairs) \cup Range(topBottomPairs)

\* The glyphs the fence properties range over: every glyph of a fence table,
\* registered symbols that are no fences, a symbol of no set, and property
\* names of Object.prototype.
Glyphs == FenceGlyphs \cup {"a", "+", "=", "u2603", "constructor", "__proto__"}

Matches(inst, open, close) == isMatchingFence_(inst, open, close).returns

\* The fence tables of inst are those the constructor built.
FenceTablesAsBuilt(inst) ==
  /\ inst.openClosePairs = constructor.openClosePairs
  /\ inst.topBottomPairs = constructor.topBottomPairs
  /\ inst.neutralFences = constructor.neutralFences

\* All pairs of glyphs that isMatchingFence_ matches on the instance the
\* constructor builds.
MatchingGlyphPairs ==
  {pair : pair \in {p \in Glyphs \X Glyphs : Matches(constructor, p[1], p[2])}}

RoleOf(inst, symbol) == lookupMeaning_(inst, symbol).returns.role

(***************************************************************************)
(* Properties.                                                             *)
(***************************************************************************)
\* C1: classify (lookupMeaning) returns exactly {type: unknown, role: unknown,
\* font: unknown} for every symbol that has no entry in the registry.
C1_NoEntryIsUnknown ==
  (ret.op = "lookupMeaning" /\ ret.args[1] \notin RegisteredSymbols)
    => ret.returns = UnknownMeaning

\* A symbol of no symbol set was looked up and the default came back.
C1_Witness ==
  /\ ret.op = "lookupMeaning"
  /\ ret.args = <<"u2603">>
  /\ ret.returns = UnknownMeaning

\* C2: last writer wins: a symbol that several sets of symbolSetToSemantic_
\* contain is classified with the type, role and font of the last of them in
\* list order (font unknown when that set names no font).
C2_LastWriterWins ==
  /\ instance_.constructed =>
       \A s \in OverlapSymbols :
         lookupMeaning_(instance_, s).returns = MeaningOfLastSet(s)
  /\ (ret.op = "lookupMeaning" /\ ret.args[1] \in OverlapSymbols)
       => ret.returns = MeaningOfLastSet(ret.args[1])

\* u2020 is in generalPunctuations (set 1) and in multiplications; it has been
\* looked up and found to be the multiplication operator.
C2_Witness ==
  /\ ret.op = "lookupMeaning"
  /\ ret.args = <<"u2020">>
  /\ Cardinality(SetsWith("u2020")) = 2
  /\ ret.returns = [role |-> "multiplication", type |-> "operator", font |-> "unknown"]

\* C3: a neutral fence matches itself and no other glyph, not even the glyph
\* a pairing table registers as its right partner.
C3_NeutralMatchesItselfOnly ==
  /\ instance_.constructed =>
       /\ FenceTablesAsBuilt(instance_)
       /\ \A x \in NeutralGlyphs : \A y \in Glyphs :
            <<x, y>> \in MatchingGlyphPairs <=> (x = y)
  /\ (ret.op = "isMatchingFence" /\ ret.args[1] \in NeutralGlyphs)
       => (ret.returns <=> ret.args[1] = ret.args[2])

\* The neutral u23b8 was matched against u23b9, its partner in openClosePairs,
\* and did not match.
C3_Witness ==
  /\ ret.op = "isMatchingFence"
  /\ ret.args = <<"u23b8", "u23b9">>
  /\ <<"u23b8", "u23b9">> \in PairEntries
  /\ ret.returns = FALSE

C6_RepeatedLookupAgrees ==
  (ret.op = "lookupMeaning" /\ noted.set /\ noted.symbol = ret.args[1])
    => /\ ret.returns.type = noted.returns.type
       /\ ret.returns.role = noted.returns.role
       /\ ret.returns.font = noted.returns.font

\* The second build has looked up a symbol that the first build looked up
\* before (the lookup kept in noted is one of build 1).
C6_Witness ==
  /\ noted.set
  /\ ret.op = "lookupMeaning"
  /\ ret.build = 2
  /\ ret.args[1] = noted.symbol
  /\ noted.symbol = "u2603"

\* C7: the registry is written during construction only: once the instance
\* exists, no classifier call of any build changes the classification of a
\* symbol or a pairing table.
C7_RegistryReadOnly == [][instance_.constructed => instance_' = instance_]_vars

\* The instance exists and both builds have run lookups on it.
C7_Witness ==
  /\ instance_.constructed
  /\ noted.set
  /\ ret.build = 2
  /\ ret.op = "isMatchingFence"
  /\ ret.args = <<"|", "|">>

\* C8: equal(m1, m2) holds exactly when m1 and m2 have the same type, role
\* and font; it is reflexive, symmetric and transitive.
C8_EqualIsFieldwiseEquality ==
  /\ ret.op = "equal" =>
       (ret.returns <=> /\ ret.args[1].type = ret.args[2].type
                         /\ ret.args[1].role = ret.args[2].role
                         /\ ret.args[1].font = ret.args[2].font)
  /\ ret.op = "equal" =>
       LET Meanings == ProbeMeanings \cup {BuiltinAsMeaning}
                         \cup {lookupMeaning_(constructor, s).returns : s \in ProbeSymbols}
       IN /\ \A m \in Meanings : equal(m, m)
          /\ \A m1 \in Meanings : \A m2 \in Meanings : equal(m1, m2) <=> equal(m2, m1)
          /\ \A m1 \in Meanings : \A m2 \in Meanings : \A m3 \in Meanings :
               (equal(m1, m2) /\ equal(m2, m3)) => equal(m1, m3)
          /\ \A m1 \in Meanings : \A m2 \in Meanings : equal(m1, m2) <=> (m1 = m2)

\* Two classifications that differ in the font only were compared and found
\* different.
C8_Witness ==
  /\ ret.op = "equal"
  /\ ret.args[1].type = ret.args[2].type
  /\ ret.args[1].role = ret.args[2].role
  /\ ret.args[1].font /= ret.args[2].font
  /\ ret.returns = FALSE

(***************************************************************************)
(* Vocabulary of the annotator's properties.                               *)
(***************************************************************************)
\* The semantic nodes from node up to the root of the tree, node first.
RECURSIVE PathToRoot(_, _)
PathToRoot(tree, node) ==
  IF tree[node].parent = NoNode THEN <<node>>
  ELSE <<node>> \o PathToRoot(tree, tree[node].parent)

\* The elements from element e up to the one without parent, e first.
RECURSIVE ElementPath(_, _)
ElementPath(elements, e) ==
  IF elements[e].parent = NoNode THEN <<e>>
  ELSE <<e>> \o ElementPath(elements, elements[e].parent)

\* The elements strictly above e.
ElementsAbove(elements, e) == Range(ElementPath(elements, e)) \ {e}

\* The elements in document order, from the listed ones on.
RECURSIVE DocumentOrder(_, _)
DocumentOrder(elements, list) ==
  IF list = <<>> THEN <<>>
  ELSE <<Head(list)>> \o DocumentOrder(elements, elements[Head(list)].children)
         \o DocumentOrder(elements, Tail(list))

\* The topmost element above the element of the case root.
TopElement(elements) ==
  LET path == ElementPath(elements, before.semantic[CaseRoot].mathmlTree)
  IN path[Len(path)]

\* The elements that getMathml created.
Synthesized == DOMAIN document \ DOMAIN before.document

\* The marked tables of the tree getMathml was called on: the nodes with an
\* MTABLE element whose Emph annotation starts with 'table'.
MarkedTables ==
  {n \in DOMAIN before.semantic :
     /\ before.semantic[n].mathmlTree /= NoNode
     /\ tagName(before.document, before.semantic[n].mathmlTree) = "MTABLE"
     /\ EmphLength(before.semantic[n]) > 0
     /\ before.semantic[n].annotation["Emph"][1] = "table"}

\* The semantic ancestors of node t on the path from the case root.
PathAncestors(t) == Range(PathToRoot(before.semantic, t)) \ {t}

Lacking(t) == {a \in PathAncestors(t) : before.semantic[a].mathmlTree = NoNode}

\* C9: the number of synthesized wrappers above the element of the marked
\* table equals the number of semantic ancestors on the path from the case
\* root to that table that have no element of their own; a table two levels
\* deep under two such ancestors has exactly two synthesized wrappers above
\* its element.
C9_WrapperChainMatchesDepth ==
  before.set =>
    \A t \in MarkedTables :
      LET wrappers == ElementsAbove(document, before.semantic[t].mathmlTree) \cap Synthesized
      IN /\ Cardinality(wrappers) = Cardinality(Lacking(t))
         /\ (Cardinality(PathAncestors(t)) = 3 /\ Cardinality(Lacking(t)) = 2) =>
              Cardinality(wrappers) = 2

\* getMathml ran on an attached case root with a marked table two levels deep
\* under two ancestors without element: the two wrappers of the ancestors and
\* the new row are above the element of the table.
C9_Witness ==
  /\ before.set
  /\ ~enrichCase.threw
  /\ \E t \in MarkedTables :
       /\ Cardinality(PathAncestors(t)) = 3
       /\ Cardinality(Lacking(t)) = 2
       /\ Len(enrichCase.mrows) = 2
       /\ Cardinality(ElementsAbove(document, before.semantic[t].mathmlTree) \cap Synthesized) = 3

\* C10: getMathml only inserts elements: every element from before the call
\* is still there with its tag, no element occurs twice, the elements from
\* before are in the same document order and in the same ancestry to each
\* other, and every attribute they had is still there with the same value.
C10_InsertsOnly ==
  before.set =>
    LET old == DOMAIN before.document
        order == DocumentOrder(document, <<TopElement(document)>>)
    IN /\ old \subseteq DOMAIN document
       /\ \A e \in old : document[e].tag = before.document[e].tag
       /\ \A e \in old : \A a \in DOMAIN before.document[e].attributes :
            /\ a \in DOMAIN document[e].attributes
            /\ document[e].attributes[a] = before.document[e].attributes[a]
       /\ \A e1 \in old : \A e2 \in old :
            (e1 \in ElementsAbove(document, e2)) <=> (e1 \in ElementsAbove(before.document, e2))
       /\ SelectSeq(order, LAMBDA e : e \in old)
            = DocumentOrder(before.document, <<TopElement(before.document)>>)
       /\ Len(order) = Cardinality(Range(order))

\* getMathml nested the element of a case root, which has an element before
\* the table, in wrappers below the math element, and wrote attributes on
\* elements from before.
C10_Witness ==
  /\ before.set
  /\ ~enrichCase.threw
  /\ Cardinality(Synthesized \cap ElementsAbove(document, before.semantic[CaseRoot].mathmlTree)) >= 3
  /\ \E e \in DOMAIN before.document :
       /\ before.document[e].tag = "mi"
       /\ before.document[e].parent = CaseRoot
  /\ \E e \in DOMAIN before.document :
       DOMAIN document[e].attributes /= DOMAIN before.document[e].attributes

\* C11: after getMathml the Emph marker is cleared on the marked table and on
\* every semantic ancestor on the path from the case root to it.
C11_MarkerClearedOnPath ==
  before.set =>
    \A t \in MarkedTables :
      \A n \in PathAncestors(t) \cup {t} : ~HasEmph(semantic[n])

\* getMathml finalized a marked table below the case root: the marker of the
\* table is gone, the one of the case root is still there.
C11_Witness ==
  /\ before.set
  /\ ~enrichCase.threw
  /\ \E t \in MarkedTables :
       /\ t /= CaseRoot
       /\ ~HasEmph(semantic[t])
       /\ HasEmph(semantic[CaseRoot])

\* C12: without a marked table in the subtree getMathml leaves the elements
\* as they were (none inserted, no attribute written), drops the marker of
\* the case root and does not throw.
C12_NoTableLeavesTreeUntouched ==
  (before.set /\ MarkedTables = {}) =>
    /\ document = before.document
    /\ ~HasEmph(semantic[CaseRoot])
    /\ ~enrichCase.threw

\* getMathml ran on a subtree without marked table and put wrappers around the
\* element of the case root, whose marker is still there.
C12_Witness ==
  /\ before.set
  /\ MarkedTables = {}
  /\ ~enrichCase.threw
  /\ Synthesized /= {}
  /\ document[before.semantic[CaseRoot].mathmlTree].parent \in Synthesized
  /\ HasEmph(semantic[CaseRoot])

\* C13: getMathml does not throw, whether or not it collects wrappers and
\* whether or not the element of the case root has a parent.
C13_GetMathmlNeverThrows == before.set => ~enrichCase.threw

\* getMathml collected a wrapper for a case root whose element has no parent,
\* and threw.
C13_Witness ==
  /\ before.set
  /\ before.document[before.semantic[CaseRoot].mathmlTree].parent = NoNode
  /\ enrichCase.mrows /= <<>>
  /\ enrichCase.threw

\* C14: getMathml creates no semantic node and changes none but for the
\* removal of the Emph marker from its annotation.
C14_SemanticTreeFrozen ==
  before.set =>
    /\ DOMAIN semantic = DOMAIN before.semantic
    /\ \A n \in DOMAIN semantic :
         \/ semantic[n] = before.semantic[n]
         \/ semantic[n] = [before.semantic[n] EXCEPT
                             !.annotation = [k \in DOMAIN @ \ {"Emph"} |-> @[k]]]

\* getMathml removed the marker of a table and synthesized wrappers; the
\* semantic nodes are otherwise as before.
C14_Witness ==
  /\ before.set
  /\ Synthesized /= {}
  /\ \E n \in DOMAIN semantic : semantic[n] /= before.semantic[n]

(***************************************************************************)
(* Vocabulary of the properties of letters and prefix operators.           *)
(***************************************************************************)
\* The small Latin alphabets of the classifier.
SmallLatinAlphabets ==
  {smallLatin, smallLatinFullWidth, smallLatinBold, smallLatinItalic,
   smallLatinBoldItalic, smallLatinScript, smallLatinBoldScript, smallLatinFraktur,
   smallLatinDoubleStruck, smallLatinBoldFraktur, smallLatinSansSerif,
   smallLatinSansSerifBold, smallLatinSansSerifItalic, smallLatinSansSerifBoldItalic,
   smallLatinMonospace}

\* The symbol at the d position of each of them.
SmallLatinDs == {alphabet[4] : alphabet \in SmallLatinAlphabets}

\* The font with which symbolSetToSemantic_ registers an alphabet.
FontOfSet(alphabet) ==
  LET i == CHOOSE j \in DOMAIN symbolSetToSemantic_ : symbolSetToSemantic_[j].set = alphabet
  IN IF "font" \in DOMAIN symbolSetToSemantic_[i] THEN symbolSetToSemantic_[i].font
     ELSE "unknown"

\* Nabla and partial differential of each font in which they are registered,
\* with the small Greek alphabet of that font.
GreekPrefixOps ==
  {[nabla |-> prefixOps[4], partial |-> prefixOps[5], greek |-> smallGreek],
   [nabla |-> prefixOpsBold[1], partial |-> prefixOpsBold[2], greek |-> smallGreekBold],
   [nabla |-> prefixOpsItalic[1], partial |-> prefixOpsItalic[2], greek |-> smallGreekItalic],
   [nabla |-> prefixOpsSansSerifBold[1], partial |-> prefixOpsSansSerifBold[2],
    greek |-> smallGreekSansSerifBold]}

\* The classification of the glyphs of GreekPrefixOps as prefix operators
\* with the font of their Greek alphabet ...
PrefixOpOfGreekFont ==
  LET of(greek) == [role |-> "prefix operator", type |-> "operator", font |-> FontOfSet(greek)]
  IN {p : p \in UNION {{<<g.nabla, of(g.greek)>>, <<g.partial, of(g.greek)>>} :
                         g \in GreekPrefixOps}}

\* ... and with the font of the set of prefix operators that holds them: the
\* font of the Greek alphabet for bold, italic and sans-serif bold, unknown
\* for the plain glyphs.
PrefixOpOfOwnFont ==
  {p : p \in {<<q[1], IF q[1] \in Range(prefixOps) THEN [q[2] EXCEPT !.font = "unknown"]
                      ELSE q[2]>> : q \in PrefixOpOfGreekFont}}

\* C16: isCharacterD holds for the symbol at the d position of every small
\* Latin alphabet of the classifier.
C16_EveryFontDIsCharacterD ==
  (ret.op = "isCharacterD" /\ ret.args[1] \in SmallLatinDs) => ret.returns = TRUE

\* isCharacterD was asked about the italic d and said yes.
C16_Witness ==
  /\ ret.op = "isCharacterD"
  /\ ret.args = <<smallLatinItalic[4]>>
  /\ ret.returns = TRUE

\* C17: nabla and partial differential are classified as operator with role
\* prefix operator and with the font of the Greek alphabet they belong to, in
\* each of the fonts normal, bold, italic and sans-serif bold.
C17_GreekPrefixOpsKeepGreekFont ==
  /\ instance_.constructed =>
       \A p \in PrefixOpOfGreekFont : lookupMeaning_(instance_, p[1]).returns = p[2]
  /\ ret.op = "lookupMeaning" =>
       \A p \in PrefixOpOfGreekFont : ret.args[1] = p[1] => ret.returns = p[2]

\* C17 as amended: they are classified as operator with role prefix operator;
\* the font is the one of the Greek alphabet for the bold, italic and
\* sans-serif bold glyphs and unknown for the plain glyphs.
C17_GreekPrefixOpsOwnFont ==
  /\ instance_.constructed =>
       \A p \in PrefixOpOfOwnFont : lookupMeaning_(instance_, p[1]).returns = p[2]
  /\ ret.op = "lookupMeaning" =>
       \A p \in PrefixOpOfOwnFont : ret.args[1] = p[1] => ret.returns = p[2]

\* The bold partial differential was looked up: a bold prefix operator.
C17_Witness ==
  /\ ret.op = "lookupMeaning"
  /\ ret.args = <<prefixOpsBold[2]>>
  /\ ret.returns = [role |-> "prefix operator", type |-> "operator", font |-> "bold"]
  /\ FontOfSet(smallGreekBold) = "bold"

\* C18: lookupType(s) is the type and lookupRole(s) the role of
\* lookupMeaning(s).
C18_LookupTypeRoleAgreeWithMeaning ==
  /\ ret.op = "lookupType" =>
       ret.returns = lookupMeaning_(instance_, ret.args[1]).returns.type
  /\ ret.op = "lookupRole" =>
       ret.returns = lookupMeaning_(instance_, ret.args[1]).returns.role

\* lookupType was asked about a symbol of no set and said unknown, as
\* lookupMeaning does.
C18_Witness ==
  /\ ret.op = "lookupType"
  /\ ret.args = <<"u2603">>
  /\ ret.returns = lookupMeaning_(instance_, "u2603").returns.type

(***************************************************************************)
(* The tree builder's fence scan: a run of tokens is scanned left to       *)
(* right over a stack of open fences.  Tokens are glyphs, classified by    *)
(* the registry and paired by isMatchingFence.                             *)
(***************************************************************************)
MaxTokens == 4

\* The positions of set S in increasing order.
Ascending(S) ==
  [k \in 1..Cardinality(S) |->
     CHOOSE i \in S : Cardinality({j \in S : j < i}) = k - 1]

ScanGlyphs == {"(", ")", "]", "u23b4", "u23b5", "|", "a"}

\* The role the classifier gives each glyph of a run.
ScanRoles == [g \in ScanGlyphs |-> lookupMeaning(constructor, g).returns.role]

\* The pairs of glyphs of a run that isMatchingFence accepts.
ScanMatches ==
  {pair : pair \in {p \in ScanGlyphs \X ScanGlyphs :
                      isMatchingFence(constructor, p[1], p[2]).returns}}

isOpenFence(glyph) == ScanRoles[glyph] \in {"open", "top"}

isCloseFence(glyph) == ScanRoles[glyph] \in {"close", "bottom"}

matches(open, close) == <<open, close>> \in ScanMatches

Top(stack) == stack[Len(stack)]

Pop(stack) == SubSeq(stack, 1, Len(stack) - 1)

\* An open fence at position i is pushed.
pushFence(s, i) ==
  [s EXCEPT !.stack = Append(@, i), !.pos = i + 1, !.tried = 0]

\* A close fence at position i: it is paired with the top of the stack when
\* that matches; otherwise the popped fence degrades to punctuation and the
\* next entry down is tried once; when that fails too the close fence
\* degrades as well.
closeFence(s, i) ==
  LET t == s.tokens IN
  IF s.stack = <<>>
  THEN [s EXCEPT !.unmatched = @ \cup {i}, !.pos = i + 1, !.tried = 0]
  ELSE LET popped == Top(s.stack)
           rest == Pop(s.stack)
       IN IF matches(t[popped], t[i])
          THEN [s EXCEPT !.pairs = @ \cup {<<popped, i>>}, !.stack = rest,
                         !.pos = i + 1, !.tried = 1]
          ELSE IF rest /= <<>> /\ matches(t[Top(rest)], t[i])
               THEN [s EXCEPT !.pairs = @ \cup {<<Top(rest), i>>},
                              !.stack = Pop(rest),
                              !.unmatched = @ \cup {popped},
                              !.pos = i + 1, !.tried = 2]
               ELSE [s EXCEPT !.unmatched = @ \cup {popped, i},
                              !.stack = rest,
                              !.pos = i + 1,
                              !.tried = IF rest = <<>> THEN 1 ELSE 2]

\* One token of the run is scanned.
scanToken(s) ==
  LET i == s.pos IN
  IF isOpenFence(s.tokens[i]) THEN pushFence(s, i)
  ELSE IF isCloseFence(s.tokens[i]) THEN closeFence(s, i)
  ELSE [s EXCEPT !.pos = i + 1, !.tried = 0]

\* End of the scan: the opens left on the stack stay unmatched punctuation.
finishScan(s) ==
  [s EXCEPT !.unmatched = @ \cup Range(s.stack), !.stack = <<>>, !.done = TRUE]

Runs == UNION {[1..n -> ScanGlyphs] : n \in 1..MaxTokens}

NewScan(tokens) ==
  [started |-> TRUE, tokens |-> tokens, pos |-> 1, stack |-> <<>>,
   pairs |-> {}, unmatched |-> {}, tried |-> 0, done |-> FALSE]

InitFences ==
  /\ instance_ = NoInstance
  /\ ret = [build |-> 0, op |-> "none", args |-> <<>>, returns |-> FALSE]
  /\ noted = [set |-> FALSE]
  /\ semantic = <<>>
  /\ document = <<>>
  /\ enrichCase = [created |-> FALSE]
  /\ before = [set |-> FALSE]
  /\ \E tokens \in Runs : scan = NewScan(tokens)
  /\ run = [started |-> FALSE]
  /\ resolving = [started |-> FALSE]

ScanToken ==
  /\ ~scan.done
  /\ scan.pos <= Len(scan.tokens)
  /\ scan' = scanToken(scan)
  /\ UNCHANGED <<classifierVars, annotatorVars, run, resolving>>

FinishScan ==
  /\ ~scan.done
  /\ scan.pos > Len(scan.tokens)
  /\ scan' = finishScan(scan)
  /\ UNCHANGED <<classifierVars, annotatorVars, run, resolving>>

\* The constituents of the run between positions a and b, in order: the
\* tokens outside every pair, and for each outermost pair its FENCED node.
Constituents(s, a, b) ==
  LET n == Len(s.tokens)
      within == {q \in s.pairs : a <= q[1] /\ q[2] <= b}
      outer == {p \in a..b : \A q \in within : ~(q[1] < p /\ p <= q[2])}
      item(p) == IF \E q \in within : q[1] = p
                 THEN n + (CHOOSE q \in within : q[1] = p)[2]
                 ELSE p
      order == Ascending(outer)
  IN [k \in 1..Len(order) |-> item(order[k])]

SemanticNode(type, parent, children, content) ==
  [type |-> type, parent |-> parent, childNodes |-> children, contentNodes |-> content]

\* (mutant of fencedNodes: the two fences stay among the children of the
\* FENCED node as well)
fencedNodesKeepFences(s) ==
  LET n == Len(s.tokens)
      root == 3 * n + 1
      ids == (1..n) \cup {n + q[2] : q \in s.pairs} \cup {2 * n + q[2] : q \in s.pairs}
               \cup {root}
      pairOf(j) == CHOOSE q \in s.pairs : q[2] = j
      parentOf(id) ==
        IF id = root THEN NoNode
        ELSE LET pos == IF id <= n THEN id ELSE IF id <= 2 * n THEN id - n ELSE id - 2 * n
                 around == {q \in s.pairs : IF id <= n \/ id > 2 * n
                                            THEN q[1] <= pos /\ pos <= q[2]
                                            ELSE q[1] < pos /\ pos < q[2]}
             IN IF id > 2 * n THEN id - n
                ELSE IF around = {} THEN root
                ELSE LET inner == CHOOSE q \in around : \A r \in around : r[1] <= q[1]
                     IN IF id <= n /\ id \in {inner[1], inner[2]}
                        THEN n + inner[2]
                        ELSE 2 * n + inner[2]
  IN [id \in ids |->
        IF id = root
        THEN SemanticNode("run", NoNode, Constituents(s, 1, n), <<>>)
        ELSE IF id > 2 * n
        THEN SemanticNode("run", parentOf(id),
                          Constituents(s, pairOf(id - 2 * n)[1] + 1, id - 2 * n - 1), <<>>)
        ELSE IF id > n
        THEN SemanticNode("fenced", parentOf(id),
                          <<pairOf(id - n)[1], n + id, id - n>>,
                          <<pairOf(id - n)[1], id - n>>)
        ELSE SemanticNode(ScanRoles[s.tokens[id]], parentOf(id), <<>>, <<>>)]

\* Step 2 of the builder: each pair of the scan becomes a FENCED node with
\* its interior as single child and its two fences as content nodes; the
\* interior is a run of its own.  Leaves have the ids 1..n of their
\* positions, the FENCED node of the pair closed at j the id n + j, its
\* interior 2n + j, the whole run 3n + 1.
fencedNodes(s) ==
  LET n == Len(s.tokens)
      root == 3 * n + 1
      ids == (1..n) \cup {n + q[2] : q \in s.pairs} \cup {2 * n + q[2] : q \in s.pairs}
               \cup {root}
      pairOf(j) == CHOOSE q \in s.pairs : q[2] = j
      parentOf(id) ==
        IF id = root THEN NoNode
        ELSE LET pos == IF id <= n THEN id ELSE IF id <= 2 * n THEN id - n ELSE id - 2 * n
                 around == {q \in s.pairs : IF id <= n \/ id > 2 * n
                                            THEN q[1] <= pos /\ pos <= q[2]
                                            ELSE q[1] < pos /\ pos < q[2]}
             IN IF id > 2 * n THEN id - n
                ELSE IF around = {} THEN root
                ELSE LET inner == CHOOSE q \in around : \A r \in around : r[1] <= q[1]
                     IN IF id <= n /\ id \in {inner[1], inner[2]}
                        THEN n + inner[2]
                        ELSE 2 * n + inner[2]
  IN [id \in ids |->
        IF id = root
        THEN SemanticNode("run", NoNode, Constituents(s, 1, n), <<>>)
        ELSE IF id > 2 * n
        THEN SemanticNode("run", parentOf(id),
                          Constituents(s, pairOf(id - 2 * n)[1] + 1, id - 2 * n - 1), <<>>)
        ELSE IF id > n
        THEN SemanticNode("fenced", parentOf(id),
                          <<n + id>>,
                          <<pairOf(id - n)[1], id - n>>)
        ELSE SemanticNode(ScanRoles[s.tokens[id]], parentOf(id), <<>>, <<>>)]

BuildFenced ==
  /\ scan.done
  /\ "nodes" \notin DOMAIN scan
  /\ scan' = scan @@ [nodes |-> fencedNodes(scan)]
  /\ UNCHANGED <<classifierVars, annotatorVars, run, resolving>>

NextFences == ScanToken \/ FinishScan \/ BuildFenced

SpecFences == InitFences /\ [][NextFences]_vars

\* The positions of a run that hold a fence the scan acts on.
FencePositions(s) ==
  {i \in 1..Len(s.tokens) : isOpenFence(s.tokens[i]) \/ isCloseFence(s.tokens[i])}

Paired(s) == {p[1] : p \in s.pairs} \cup {p[2] : p \in s.pairs}

\* The pairing tables hold <<open, close>>, or open is a neutral fence and
\* close the same glyph.
TableMatch(open, close) ==
  \/ <<open, close>> \in PairEntries
  \/ open \in NeutralGlyphs /\ open = close

Crossing(p, q) == p[1] < q[1] /\ q[1] < p[2] /\ p[2] < q[2]

MaxRun == 4

RunGlyphs == {"=", "u2261", "<", "u2208", "a", "+"}

RelationRoles == {"equality", "inequality", "set", "element", "arrow"}

\* The meaning the classifier gives each glyph of a run.
RunMeanings == [g \in RunGlyphs |-> lookupMeaning(constructor, g).returns]

\* A relation symbol has one of the relation roles, or is a relation of
\* unknown role.
isRelation(glyph) ==
  \/ RunMeanings[glyph].role \in RelationRoles
  \/ RunMeanings[glyph].type = "relation" /\ RunMeanings[glyph].role = "unknown"

\* The segments of tokens between the positions rels, one more than rels.
segments(tokens, rels) ==
  [k \in 1..(Len(rels) + 1) |->
     SubSeq(tokens,
            IF k = 1 THEN 1 ELSE rels[k - 1] + 1,
            IF k = Len(rels) + 1 THEN Len(tokens) ELSE rels[k] - 1)]

\* (mutant of relationSequence: one relation symbol makes a RELSEQ node, more
\* than one a MULTIREL node)
relationSequenceByCount(tokens) ==
  LET rels == Ascending({i \in 1..Len(tokens) : isRelation(tokens[i])})
  IN IF rels = <<>>
     THEN [type |-> "none", contentNodes |-> <<>>, childNodes |-> <<tokens>>]
     ELSE [type |-> IF Len(rels) = 1 THEN "relseq" ELSE "multirel",
           contentNodes |-> [k \in 1..Len(rels) |-> tokens[rels[k]]],
           childNodes |-> segments(tokens, rels)]

\* Step 3 of the builder: no relation leaves the run to the operator step;
\* one relation role among all relation symbols makes a RELSEQ node, two or
\* more roles a MULTIREL node; the relation symbols are the content, the
\* segments between them the children.
relationSequence(tokens) ==
  LET rels == Ascending({i \in 1..Len(tokens) : isRelation(tokens[i])})
      roles == {RunMeanings[tokens[rels[k]]].role : k \in 1..Len(rels)}
  IN IF rels = <<>>
     THEN [type |-> "none", contentNodes |-> <<>>, childNodes |-> <<tokens>>]
     ELSE [type |-> IF Cardinality(roles) = 1 THEN "relseq" ELSE "multirel",
           contentNodes |-> [k \in 1..Len(rels) |-> tokens[rels[k]]],
           childNodes |-> segments(tokens, rels)]

FlatRuns == UNION {[1..n -> RunGlyphs] : n \in 1..MaxRun}

InitRelations ==
  /\ instance_ = NoInstance
  /\ ret = [build |-> 0, op |-> "none", args |-> <<>>, returns |-> FALSE]
  /\ noted = [set |-> FALSE]
  /\ semantic = <<>>
  /\ document = <<>>
  /\ enrichCase = [created |-> FALSE]
  /\ before = [set |-> FALSE]
  /\ scan = [started |-> FALSE]
  /\ \E tokens \in FlatRuns : run = [started |-> TRUE, tokens |-> tokens, done |-> FALSE]
  /\ resolving = [started |-> FALSE]

Segment ==
  /\ run.started
  /\ ~run.done
  /\ run' = [run EXCEPT !.done = TRUE] @@ [node |-> relationSequence(run.tokens)]
  /\ UNCHANGED <<classifierVars, annotatorVars, scan, resolving>>

NextRelations == Segment

SpecRelations == InitRelations /\ [][NextRelations]_vars

RECURSIVE Rejoin(_, _)
\* The children with the content symbols put back between them.
Rejoin(children, content) ==
  IF content = <<>> THEN children[1]
  ELSE children[1] \o <<content[1]>> \o Rejoin(Tail(children), Tail(content))

RelationsOf(tokens) == SelectSeq(tokens, isRelation)

RelationRolesOf(tokens) == {RunMeanings[g].role : g \in Range(RelationsOf(tokens))}

MaxChildren == 3

MaxRows == 2

Leaf(glyph) ==
  LET meaning == lookupMeaning(constructor, glyph).returns
  IN [type |-> meaning.type, role |-> meaning.role, font |-> meaning.font,
      textContent |-> glyph, childNodes |-> <<>>, contentNodes |-> <<>>,
      annotation |-> <<>>]

Compound(type, children, content) ==
  [type |-> type, role |-> "unknown", font |-> "unknown", textContent |-> "",
   childNodes |-> children, contentNodes |-> content, annotation |-> <<>>]

\* Operands: an identifier, a dash, a sum sign.  Operators: a
\* multiplication dot, a plus sign.
Operands == {op : op \in {Leaf(g) : g \in {"a", "u2013", "u2211"}}}

Operators == {op : op \in {Leaf(g) : g \in {"u22c5", "+"}}}

\* Rows of operands with the operators between them.
OperandRows ==
  UNION {{Compound("infixop", children, content) :
            children \in [1..n -> Operands], content \in [1..(n - 1) -> Operators]} :
         n \in 1..MaxChildren}

Table(rows, columns) ==
  Compound("table",
           [r \in 1..rows |->
              Compound("row",
                       [c \in 1..columns |-> Compound("cell", <<Leaf("a")>>, <<>>)],
                       <<>>)],
           <<>>)

Tables == {Table(rows, columns) : rows \in 1..MaxRows, columns \in 1..MaxRows}

\* A fenced node: its content nodes are the two fences, its child the
\* interior.
Fenced(open, close, interior) ==
  Compound("fenced", <<interior>>, <<Leaf(open), Leaf(close)>>)

FencePairs == {<<"(", ")">>, <<"|", "|">>, <<"u23b4", "u23b5">>}

FencedNodes ==
  {Fenced(f[1], f[2], interior) : f \in FencePairs, interior \in Tables \cup OperandRows}

SemanticTrees == Operands \cup OperandRows \cup Tables \cup FencedNodes

\* A dash with no left sibling is a sign.
unarySign(node, position) ==
  IF position = 1 /\ node.role = "dash" THEN [node EXCEPT !.role = "negative"] ELSE node

isSumOrIntegral(node) == node.type = "largeop" /\ node.role \in {"sum", "integral"}

\* A multiplication glyph next to exactly one large operator separates the
\* operator from its body.
bodySeparator(node, left, right) ==
  IF /\ node.role = "multiplication"
     /\ isSumOrIntegral(left) /= isSumOrIntegral(right)
  THEN [node EXCEPT !.role = "implicit"]
  ELSE node

\* The role of a table, from its rows and columns.
tableRole(node) ==
  IF \A r \in 1..Len(node.childNodes) : Len(node.childNodes[r].childNodes) = 1
  THEN "vector"
  ELSE "matrix"

\* The role of a fenced node, from its fences and its interior.
fencedRole(node) ==
  LET open == node.contentNodes[1]
      interior == node.childNodes[1]
      rows == Len(interior.childNodes)
  IN IF open.role = "top" THEN "abovebelow"
     ELSE IF interior.type /= "table" THEN "leftright"
     ELSE IF open.role = "neutral" /\ interior.role = "matrix"
                /\ \A r \in 1..rows : Len(interior.childNodes[r].childNodes) = rows
          THEN "determinant"
     ELSE IF open.role = "open" /\ interior.role = "vector" /\ rows = 2
          THEN "binomial"
     ELSE IF open.role = "open" /\ rows = 1
          THEN "rowvector"
     ELSE "leftright"

\* (mutant of resolveNode: a table takes its role as its type too)
resolveNodeRetype(node) ==
  LET children == node.childNodes
      content == node.contentNodes
      signed == [k \in 1..Len(children) |-> unarySign(children[k], k)]
      separated ==
        IF node.type = "infixop"
        THEN [k \in 1..Len(content) |-> bodySeparator(content[k], children[k], children[k + 1])]
        ELSE content
      own == [node EXCEPT !.childNodes = signed, !.contentNodes = separated]
  IN IF node.type = "table"
     THEN [own EXCEPT !.role = tableRole(own), !.type = tableRole(own)]
     ELSE IF node.type = "fenced" THEN [own EXCEPT !.role = fencedRole(own)]
     ELSE own

\* The roles a node gets from its own context and gives to its children and
\* content nodes.
resolveNode(node) ==
  LET children == node.childNodes
      content == node.contentNodes
      signed == [k \in 1..Len(children) |-> unarySign(children[k], k)]
      separated ==
        IF node.type = "infixop"
        THEN [k \in 1..Len(content) |-> bodySeparator(content[k], children[k], children[k + 1])]
        ELSE content
      own == [node EXCEPT !.childNodes = signed, !.contentNodes = separated]
  IN IF node.type = "table" THEN [own EXCEPT !.role = tableRole(own)]
     ELSE IF node.type = "fenced" THEN [own EXCEPT !.role = fencedRole(own)]
     ELSE own

RECURSIVE resolvePreOrder(_)
\* (mutant of resolveSubtree: a node is resolved before its children)
resolvePreOrder(node) ==
  LET own == resolveNode(node)
  IN [own EXCEPT !.childNodes = [k \in 1..Len(@) |-> resolvePreOrder(@[k])],
                 !.contentNodes = [k \in 1..Len(@) |-> resolvePreOrder(@[k])]]

RECURSIVE resolveSubtree(_)
\* The post-order pass: the children and content nodes first, then the node.
resolveSubtree(node) ==
  resolveNode([node EXCEPT
                 !.childNodes = [k \in 1..Len(@) |-> resolveSubtree(@[k])],
                 !.contentNodes = [k \in 1..Len(@) |-> resolveSubtree(@[k])]])

\* resolve(tree); the root has no left sibling.
resolve(root) == unarySign(resolveSubtree(root), 1)

InitResolver ==
  /\ instance_ = NoInstance
  /\ ret = [build |-> 0, op |-> "none", args |-> <<>>, returns |-> FALSE]
  /\ noted = [set |-> FALSE]
  /\ semantic = <<>>
  /\ document = <<>>
  /\ enrichCase = [created |-> FALSE]
  /\ before = [set |-> FALSE]
  /\ scan = [started |-> FALSE]
  /\ run = [started |-> FALSE]
  /\ \E root \in SemanticTrees :
       resolving = [started |-> TRUE, built |-> root, root |-> root,
                    previous |-> root, passes |-> 0]

\* resolve runs on the tree, in place; the tree of before the pass is kept
\* for comparison.
Resolve ==
  /\ resolving.started
  /\ resolving.passes < 2
  /\ resolving' = [resolving EXCEPT !.previous = resolving.root,
                                    !.root = resolve(resolving.root),
                                    !.passes = @ + 1]
  /\ UNCHANGED <<classifierVars, annotatorVars, scan, run>>

NextResolver == Resolve

SpecResolver == InitResolver /\ [][NextResolver]_vars

RECURSIVE Roles(_)
\* The roles of a tree, in document order.
Roles(node) ==
  LET RECURSIVE Concat(_)
      Concat(seq) == IF seq = <<>> THEN <<>> ELSE Roles(Head(seq)) \o Concat(Tail(seq))
  IN <<node.role>> \o Concat(node.childNodes) \o Concat(node.contentNodes)

\* C20: resolve is idempotent; a second run of resolve on a resolved tree
\* changes no role, annotation, child order or content-node order of any
\* node: the tree after the second pass is the tree after the first.
C20_ResolveIdempotent ==
  (resolving.started /\ resolving.passes = 2) =>
     resolving.root = resolving.previous

\* A second pass over a fenced table whose first pass changed roles: the
\* table became a matrix and the fenced node a determinant.
C20_Witness ==
  /\ resolving.started
  /\ resolving.passes = 2
  /\ Roles(resolving.built) /= Roles(resolving.previous)
  /\ resolving.built.type = "fenced"
  /\ resolving.root.role = "determinant"
  /\ resolving.root.childNodes[1].role = "matrix"

(***************************************************************************)
(* Role resolution and annotation together: resolve runs on a tree of the  *)
(* builder and getMathml on the tree of an enrichment case, in any order.  *)
(***************************************************************************)
FencedTables ==
  {Fenced(f[1], f[2], interior) : f \in FencePairs, interior \in Tables}

PassTrees == Operands \cup Tables \cup FencedTables

InitPasses ==
  /\ instance_ = NoInstance
  /\ ret = [build |-> 0, op |-> "none", args |-> <<>>, returns |-> FALSE]
  /\ noted = [set |-> FALSE]
  /\ \E depth \in 0..MaxDepth, mark \in TableMarks, left \in BOOLEAN, attached \in BOOLEAN :
       \E own \in SUBSET (1..depth), bare \in BOOLEAN :
         /\ semantic = SemanticTree(depth, own, mark, left, bare)
         /\ document = MathmlTree(depth, own, mark, left, bare, attached)
  /\ enrichCase = [created |-> FALSE]
  /\ before = [set |-> FALSE]
  /\ scan = [started |-> FALSE]
  /\ run = [started |-> FALSE]
  /\ \E root \in PassTrees :
       resolving = [started |-> TRUE, built |-> root, root |-> root,
                    previous |-> root, passes |-> 0]

NextPasses == Resolve \/ GetMathml

SpecPasses == InitPasses /\ [][NextPasses]_vars

RECURSIVE Types(_)
\* The types of a tree, in document order.
Types(node) ==
  LET RECURSIVE Concat(_)
      Concat(seq) == IF seq = <<>> THEN <<>> ELSE Types(Head(seq)) \o Concat(Tail(seq))
  IN <<node.type>> \o Concat(node.childNodes) \o Concat(node.contentNodes)

\* C21: the type of a node never changes after the builder assigned it: after
\* any sequence of resolve and getMathml steps every node of the resolved
\* tree and every node of the annotated tree has the type it was built with
\* (its role and annotation may differ).
C21_TypeNeverChanges ==
  /\ resolving.started => Types(resolving.root) = Types(resolving.built)
  /\ before.set =>
       /\ DOMAIN semantic = DOMAIN before.semantic
       /\ \A n \in DOMAIN semantic : semantic[n].type = before.semantic[n].type

\* Both passes have run, resolve changed roles and getMathml an annotation.
C21_Witness ==
  /\ resolving.started
  /\ resolving.passes = 2
  /\ Roles(resolving.root) /= Roles(resolving.built)
  /\ before.set
  /\ \E n \in DOMAIN semantic : semantic[n].annotation /= before.semantic[n].annotation

RECURSIVE Walk(_, _)
\* The nodes reached from node id, walking childNodes and then contentNodes
\* as recurseToTable does.
Walk(nodes, id) ==
  LET RECURSIVE Each(_)
      Each(seq) == IF seq = <<>> THEN <<>> ELSE Walk(nodes, Head(seq)) \o Each(Tail(seq))
  IN <<id>> \o Each(nodes[id].childNodes) \o Each(nodes[id].contentNodes)

NoDuplicates(seq) == \A i, j \in 1..Len(seq) : seq[i] = seq[j] => i = j

ScanRoot == 3 * Len(scan.tokens) + 1

\* C22: in the tree the builder makes of a run, no node is both a child and
\* a content node of the same parent, and the walk over childNodes and then
\* contentNodes from the root reaches every node of the tree exactly once.
C22_ChildrenContentDisjoint ==
  (scan.started /\ "nodes" \in DOMAIN scan) =>
     /\ \A id \in DOMAIN scan.nodes :
          Range(scan.nodes[id].childNodes) \cap Range(scan.nodes[id].contentNodes) = {}
     /\ NoDuplicates(Walk(scan.nodes, ScanRoot))
     /\ Range(Walk(scan.nodes, ScanRoot)) = DOMAIN scan.nodes

\* A tree with a FENCED node inside the interior of another.
C22_Witness ==
  /\ scan.started
  /\ "nodes" \in DOMAIN scan
  /\ scan.tokens = <<"(", "u23b4", "u23b5", ")">>
  /\ scan.nodes[8].contentNodes = <<1, 4>>
  /\ scan.nodes[8].childNodes = <<12>>
  /\ scan.nodes[12].childNodes = <<7>>
  /\ scan.nodes[7].contentNodes = <<2, 3>>

\* C23: every pair registered in the pairing tables matches: for every entry
\* <<o, c>> of openClosePairs and of topBottomPairs, isMatchingFence(o, c)
\* returns true.
C23_RegisteredPairsMatch ==
  (ret.op = "isMatchingFence" /\ ret.args \in PairEntries) => ret.returns = TRUE

\* isMatchingFence was called with the registered pair U+23B8, U+23B9, whose
\* open glyph is a neutral fence as well.
C23_Witness ==
  /\ ret.op = "isMatchingFence"
  /\ ret.args = <<"u23b8", "u23b9">>
  /\ ret.args \in PairEntries
  /\ ret.args[1] \in NeutralGlyphs

\* The roles of a fence.
FenceRoles == {"open", "close", "top", "bottom", "neutral"}

\* C24: every role that can begin a matching pair under isMatchingFenceRole
\* (open, top, neutral) satisfies isOpeningFence, and every role that can end
\* one (close, bottom, neutral) satisfies isClosingFence.
C24_PairRolesOpenAndClose ==
  /\ (ret.op = "isOpeningFence"
        /\ \E close \in FenceRoles : isMatchingFenceRole(ret.args[1], close))
       => ret.returns = TRUE
  /\ (ret.op = "isClosingFence"
        /\ \E open \in FenceRoles : isMatchingFenceRole(open, ret.args[1]))
       => ret.returns = TRUE

\* C24 (amended): isOpeningFence holds of exactly the roles that begin a
\* left/right or neutral pair (open, neutral) and isClosingFence of exactly
\* the roles that end one (close, neutral); the roles of a top/bottom pair
\* satisfy neither.
C24_LeftRightRolesOpenAndClose ==
  /\ ret.op = "isOpeningFence" =>
       (ret.returns <=>
          \E close \in {"close", "neutral"} : isMatchingFenceRole(ret.args[1], close))
  /\ ret.op = "isClosingFence" =>
       (ret.returns <=>
          \E open \in {"open", "neutral"} : isMatchingFenceRole(open, ret.args[1]))

\* isOpeningFence was asked about top, which begins the pair top/bottom.
C24_Witness ==
  /\ ret.op = "isOpeningFence"
  /\ ret.args = <<"top">>
  /\ isMatchingFenceRole("top", "bottom")
  /\ ret.returns = FALSE

\* The symbols of the sets registered with one of the relation roles.
RelationRoleSymbols ==
  UNION {Range(symbolSetToSemantic_[i].set) :
           i \in {j \in DOMAIN symbolSetToSemantic_ :
                    symbolSetToSemantic_[j].role \in RelationRoles}}

\* C25: every symbol classified with one of the relation roles equality,
\* inequality, set, element or arrow has type relation.
C25_RelationRolesHaveRelationType ==
  instance_.constructed =>
    \A s \in RelationRoleSymbols :
      lookupMeaning_(instance_, s).returns.role \in RelationRoles
        => lookupMeaning_(instance_, s).returns.type = "relation"

\* The registry is built and holds U+2208 with role element and type
\* operator.
C25_Witness ==
  /\ instance_.constructed
  /\ "u2208" \in RelationRoleSymbols
  /\ lookupMeaning_(instance_, "u2208").returns.role = "element"
  /\ lookupMeaning_(instance_, "u2208").returns.type = "operator"

\* The synthesized wrappers that carry the id of semantic node n.
WrappersOf(n) ==
  {e \in Synthesized :
     /\ "data-semantic-id" \in DOMAIN document[e].attributes
     /\ document[e].attributes["data-semantic-id"] = <<n>>}

\* The external nodes of semantic node n after getMathml: its own element,
\* or the wrapper synthesized for it.
ExternalNodes(n) ==
  IF semantic[n].mathmlTree /= NoNode THEN {semantic[n].mathmlTree} ELSE WrappersOf(n)

SemanticAncestors(n) == Range(PathToRoot(semantic, n)) \ {n}

\* C26: after getMathml, external nesting follows semantic nesting: the
\* external node of a semantic node encloses the external node of another
\* only if the first node is a semantic ancestor of the second; so the
\* element of the case root is inside no wrapper of one of its descendants.
C26_ExternalNestingFollowsSemantic ==
  before.set =>
    \A a, b \in DOMAIN semantic :
      \A ea \in ExternalNodes(a), eb \in ExternalNodes(b) :
        ea \in ElementsAbove(document, eb) => a \in SemanticAncestors(b)

\* getMathml returned with the element of the case root inside the wrapper
\* synthesized for a semantic descendant of the case root.
C26_Witness ==
  /\ before.set
  /\ ~enrichCase.threw
  /\ \E d \in DOMAIN semantic :
       /\ CaseRoot \in SemanticAncestors(d)
       /\ semantic[d].mathmlTree = NoNode
       /\ \E w \in WrappersOf(d) :
            w \in ElementsAbove(document, semantic[CaseRoot].mathmlTree)

\* The wrappers recurseToTable collected.
CollectedWrappers == Range(enrichCase.mrows)

ReturnedGlyphMeaning == lookupMeaning_(instance_, ret.returns).returns

\* C28: each of the four invisible glyphs has a registered classification:
\* invisibleTimes() is an operator of role multiplication, invisiblePlus() an
\* operator of role addition, invisibleComma() a punctuation of role comma,
\* and functionApplication() has a type and a role other than unknown.
C28_InvisibleGlyphsClassified ==
  /\ ret.op = "invisibleTimes" =>
       /\ ReturnedGlyphMeaning.type = "operator"
       /\ ReturnedGlyphMeaning.role = "multiplication"
  /\ ret.op = "invisiblePlus" =>
       /\ ReturnedGlyphMeaning.type = "operator"
       /\ ReturnedGlyphMeaning.role = "addition"
  /\ ret.op = "invisibleComma" =>
       /\ ReturnedGlyphMeaning.type = "punctuation"
       /\ ReturnedGlyphMeaning.role = "comma"
  /\ ret.op = "functionApplication" =>
       /\ ReturnedGlyphMeaning.type /= "unknown"
       /\ ReturnedGlyphMeaning.role /= "unknown"

\* functionApplication() returned U+2061, which no symbol set holds.
C28_Witness ==
  /\ ret.op = "functionApplication"
  /\ ret.returns = "u2061"
  /\ ret.returns \notin RegisteredSymbols
  /\ ReturnedGlyphMeaning = UnknownMeaning

\* C29: the function-name vocabularies map to their own roles: every name of
\* limitFunctions is classified with role limit function, every name of
\* prefixFunctions with role prefix function, every name of infixFunctions
\* with role infix function, and no registered name outside prefixFunctions
\* has role prefix function.
C29_FunctionNamesHaveOwnRole ==
  instance_.constructed =>
    /\ \A name \in Range(limitFunctions) : RoleOf(instance_, name) = "limit function"
    /\ \A name \in Range(DerivedArrays.prefixFunctions) :
         RoleOf(instance_, name) = "prefix function"
    /\ \A name \in Range(infixFunctions) : RoleOf(instance_, name) = "infix function"
    /\ \A name \in RegisteredSymbols \ Range(DerivedArrays.prefixFunctions) :
         RoleOf(instance_, name) /= "prefix function"

\* The registry is built and holds mod, a name of infixFunctions and not of
\* prefixFunctions, with role prefix function.
C29_Witness ==
  /\ instance_.constructed
  /\ "mod" \in Range(infixFunctions)
  /\ "mod" \notin Range(DerivedArrays.prefixFunctions)
  /\ lookupMeaning_(instance_, "mod").returns
       = [role |-> "prefix function", type |-> "operator", font |-> "unknown"]

====
